---- MODULE Spec2Model ----
(***************************************************************************)
(* Verification model of the EA repository: the metamodel tables, the      *)
(* EaRepository object/relationship store, the scope and reference-        *)
(* framework policies and the repository context (orchestrator).           *)
(*                                                                         *)
(* Representation of JavaScript values                                     *)
(*  - a string that the code trims is a sequence of tokens, each token     *)
(*    being the blank SP or a chunk without white space;                   *)
(*  - an optional value (undefined / null) is a set of at most one value;  *)
(*  - a Record<string, unknown> is a function from keys to values;         *)
(*  - a Map and an array are heap cells named by references, so that two   *)
(*    EaRepository instances can be told apart from two names of one.      *)
(***************************************************************************)
EXTENDS Integers, Sequences, FiniteSets, TLC

VARIABLES
  heapObjects,   \* reference -> Map<string, EaObject> (the `objects` fields)
  heapRels,      \* reference -> EaRelationship[]      (the `relationships` fields)
  handles,       \* instance name -> [objects: reference, relationships: reference]
  lastOp,        \* the last call made on an EaRepository: [name, on]
  result,        \* the value that call returned
  arg,           \* argument of the last pure-function evaluation
  out,           \* value of the last pure-function evaluation
  \* EaRepositoryProvider (the repository context)
  eaRepository,        \* state: the current repository, or null
  metadata,            \* state: the current metadata, or null
  capturedMetadata,    \* the metadata closed over by the current setEaRepository
  undoStack,           \* undoStackRef.current
  redoStack,           \* redoStackRef.current
  lastSerialized,      \* lastSerializedRef.current
  suppressHistory,     \* suppressHistoryRef.current
  lastSaveBlockedKey,  \* lastSaveBlockedKeyRef.current
  lastAdvisoryWarnKey, \* lastAdvisoryWarnKeyRef.current
  canUndo,             \* state: canUndo
  canRedo,             \* state: canRedo
  storage,             \* localStorage[STORAGE_KEY]
  now,                 \* the clock read by new Date()
  emitted,             \* the messages shown by the last handler and its effects
  returned,            \* the last handler called and the value it returned
  \* ViewRepository (one instance) and its caller
  viewHeap,            \* reference -> ViewDefinition object
  byId,                \* this.byId: id -> reference of the stored object
  idByNormalizedName,  \* this.idByNormalizedName: normalized name -> id
  viewResult,          \* the last call made on the ViewRepository and its result
  \* RepositoryStore and ViewRepositoryStore (module state)
  repository,          \* the singleton ArchitectureRepository, or null
  repositoryRevision,  \* repositoryRevision
  activeProject,       \* projectStore.getProject()?.id, or null
  viewRepository,      \* the projectId of the singleton ViewRepository, or null
  viewsRevision,       \* viewsRevision
  dispatched,          \* the events dispatched on window by the last call
  hasWindow,           \* typeof window !== 'undefined'
  storeResult          \* the last call made on a store and its result

repoVars == <<heapObjects, heapRels, handles, lastOp, result>>
pureVars == <<arg, out>>
ctxVars ==
  <<eaRepository, metadata, capturedMetadata, undoStack, redoStack, lastSerialized,
    suppressHistory, lastSaveBlockedKey, lastAdvisoryWarnKey, canUndo, canRedo,
    storage, now, emitted, returned>>

viewVars == <<viewHeap, byId, idByNormalizedName, viewResult>>
storeVars ==
  <<repository, repositoryRevision, activeProject, viewRepository, viewsRevision,
    dispatched, hasWindow, storeResult>>
backendVars == <<viewVars, storeVars>>

vars == <<repoVars, pureVars, ctxVars, backendVars>>

----------------------------------------------------------------------------
(* Bounds of the model                                                     *)

MaxRels == 1       \* relationships held by one EaRepository instance
MaxCloneRels == 1  \* the same, in the specification with two instances
MaxCtorItems == 2  \* items in each list handed to the constructor

----------------------------------------------------------------------------
(* Optional values and strings                                             *)

None == {}
Some(x) == {x}
TheValue(o) == CHOOSE x \in o : TRUE

SP == " "

RECURSIVE TrimStart(_)
TrimStart(s) ==
  IF s = <<>> THEN <<>>
  ELSE IF Head(s) = SP THEN TrimStart(Tail(s)) ELSE s

RECURSIVE TrimEnd(_)
TrimEnd(s) ==
  IF s = <<>> THEN <<>>
  ELSE IF s[Len(s)] = SP THEN TrimEnd(SubSeq(s, 1, Len(s) - 1)) ELSE s

\* String.prototype.trim
Trim(s) == TrimEnd(TrimStart(s))

EmptyAttributes == [k \in {} |-> TRUE]

\* { ...a, ...b } : shallow spread of b over a
Spread(a, b) ==
  [k \in (DOMAIN a) \cup (DOMAIN b) |-> IF k \in DOMAIN b THEN b[k] ELSE a[k]]

SeqIncludes(s, x) == \E i \in 1..Len(s) : s[i] = x

----------------------------------------------------------------------------
(* eaMetaModel                                                             *)

OBJECT_TYPES ==
  << "Enterprise", "CapabilityCategory", "Capability", "SubCapability",
     "BusinessService", "BusinessProcess", "Department", "Application",
     "ApplicationService", "Technology", "Programme", "Project",
     "Principle", "Requirement" >>

RELATIONSHIP_TYPES ==
  << "DECOMPOSES_TO", "REALIZES", "DEPENDS_ON", "HOSTED_ON", "OWNS", "HAS",
     "REALIZED_BY", "PROVIDES", "SUPPORTS", "SUPPORTED_BY", "IMPACTS",
     "IMPLEMENTS", "DELIVERS" >>

ObjectTypeSet == { OBJECT_TYPES[i] : i \in 1..Len(OBJECT_TYPES) }
RelationshipTypeSet == { RELATIONSHIP_TYPES[i] : i \in 1..Len(RELATIONSHIP_TYPES) }

\* OBJECT_TYPE_DEFINITIONS[t].layer
OBJECT_TYPE_LAYER ==
  [ Enterprise |-> "Business", Programme |-> "Strategy", Project |-> "Strategy",
    Principle |-> "Strategy", Requirement |-> "Strategy",
    CapabilityCategory |-> "Business", Capability |-> "Business",
    SubCapability |-> "Business", BusinessProcess |-> "Business",
    BusinessService |-> "Business", Department |-> "Business",
    Application |-> "Application", ApplicationService |-> "Application",
    Technology |-> "Technology" ]

RELATIONSHIP_TYPE_DEFINITIONS ==
  [ DECOMPOSES_TO |->
      [ fromTypes |-> <<"CapabilityCategory", "Capability", "SubCapability">>,
        toTypes   |-> <<"CapabilityCategory", "Capability", "SubCapability">> ],
    REALIZES |->
      [ fromTypes |-> <<"BusinessProcess">>, toTypes |-> <<"Application">> ],
    DEPENDS_ON |->
      [ fromTypes |-> <<"Application">>, toTypes |-> <<"Application">> ],
    HOSTED_ON |->
      [ fromTypes |-> <<"Application">>, toTypes |-> <<"Technology">> ],
    DELIVERS |->
      [ fromTypes |-> <<"Programme">>,
        toTypes   |-> <<"CapabilityCategory", "Capability", "SubCapability", "Application">> ],
    OWNS |->
      [ fromTypes |-> <<"Enterprise">>,
        toTypes   |-> <<"Enterprise", "Capability", "Application", "Programme">> ],
    HAS |->
      [ fromTypes |-> <<"Enterprise">>, toTypes |-> <<"Department">> ],
    REALIZED_BY |->
      [ fromTypes |-> <<"Capability", "SubCapability">>, toTypes |-> <<"BusinessService">> ],
    PROVIDES |->
      [ fromTypes |-> <<"Application">>, toTypes |-> <<"ApplicationService">> ],
    SUPPORTS |->
      [ fromTypes |-> <<"ApplicationService">>, toTypes |-> <<"BusinessService">> ],
    SUPPORTED_BY |->
      [ fromTypes |-> <<"Capability", "SubCapability">>, toTypes |-> <<"Application">> ],
    IMPACTS |->
      [ fromTypes |-> <<"Programme">>, toTypes |-> <<"Capability", "SubCapability">> ],
    IMPLEMENTS |->
      [ fromTypes |-> <<"Project">>, toTypes |-> <<"Application">> ] ]

isValidObjectType(type) == SeqIncludes(OBJECT_TYPES, type)

isValidRelationshipType(type) == SeqIncludes(RELATIONSHIP_TYPES, type)

----------------------------------------------------------------------------
(* eaRepository: the methods of EaRepository as functions of the fields    *)

Coalesce(o, d) == IF o = None THEN d ELSE TheValue(o)

Ok == [ok |-> TRUE]
Fail(e) == [ok |-> FALSE, error |-> e]

\* EaRepository.validateReference
validateReference(objs, id) ==
  LET key == Trim(Coalesce(id, <<>>)) IN
  IF key = <<>> THEN Fail(<<"Reference id is required.">>)
  ELSE IF key \notin DOMAIN objs THEN Fail(<<"Unknown object id", key>>)
  ELSE Ok

\* Map.prototype.set
MapSet(m, k, v) == [x \in (DOMAIN m) \cup {k} |-> IF x = k THEN v ELSE m[x]]

\* addObject that reports a duplicate id only after it has stored the object
addObject_StoresBeforeDuplicateCheck(objs, object) ==
  LET id == Trim(Coalesce(object.id, <<>>))
      stored == MapSet(objs, id,
                  [id |-> id, type |-> object.type,
                   attributes |-> Coalesce(object.attributes, EmptyAttributes)])
  IN
  IF id = <<>> THEN
    [result |-> Fail(<<"Object id is required.">>), objects |-> objs]
  ELSE IF ~isValidObjectType(object.type) THEN
    [result |-> Fail(<<"Invalid object type", object.type>>), objects |-> objs]
  ELSE IF id \in DOMAIN objs THEN
    [result |-> Fail(<<"Duplicate object id", id>>), objects |-> stored]
  ELSE
    [result |-> Ok, objects |-> stored]

\* addObject without the duplicate-id check
addObject_NoDuplicateCheck(objs, object) ==
  LET id == Trim(Coalesce(object.id, <<>>)) IN
  IF id = <<>> THEN
    [result |-> Fail(<<"Object id is required.">>), objects |-> objs]
  ELSE IF ~isValidObjectType(object.type) THEN
    [result |-> Fail(<<"Invalid object type", object.type>>), objects |-> objs]
  ELSE
    [result |-> Ok,
     objects |-> MapSet(objs, id,
                   [id |-> id, type |-> object.type,
                    attributes |-> Coalesce(object.attributes, EmptyAttributes)])]

\* EaRepository.addObject: the returned value and the object map afterwards
addObject(objs, object) ==
  LET id == Trim(Coalesce(object.id, <<>>)) IN
  IF id = <<>> THEN
    [result |-> Fail(<<"Object id is required.">>), objects |-> objs]
  ELSE IF ~isValidObjectType(object.type) THEN
    [result |-> Fail(<<"Invalid object type", object.type>>), objects |-> objs]
  ELSE IF id \in DOMAIN objs THEN
    [result |-> Fail(<<"Duplicate object id", id>>), objects |-> objs]
  ELSE
    [result |-> Ok,
     objects |-> MapSet(objs, id,
                   [id |-> id, type |-> object.type,
                    attributes |-> Coalesce(object.attributes, EmptyAttributes)])]

\* an endpoint test that looks at the source type only
EndpointsAllowed_FromOnly(def, fromType, toType) ==
  SeqIncludes(def.fromTypes, fromType)

\* the endpoint test of EaRepository.addRelationship
EndpointsAllowed(def, fromType, toType) ==
  SeqIncludes(def.fromTypes, fromType) /\ SeqIncludes(def.toTypes, toType)

\* an addRelationship that looks at the relationship type before the two ids
addRelationship_TypeFirst(objs, rels, rel) ==
  LET fromId == Trim(Coalesce(rel.fromId, <<>>))
      toId == Trim(Coalesce(rel.toId, <<>>))
      fromRef == validateReference(objs, Some(fromId))
      toRef == validateReference(objs, Some(toId))
  IN
  IF ~isValidRelationshipType(rel.type) THEN
    [result |-> Fail(<<"Invalid relationship type", rel.type>>), relationships |-> rels]
  ELSE IF fromId = <<>> THEN
    [result |-> Fail(<<"Relationship fromId is required.">>), relationships |-> rels]
  ELSE IF toId = <<>> THEN
    [result |-> Fail(<<"Relationship toId is required.">>), relationships |-> rels]
  ELSE IF ~fromRef.ok THEN
    [result |-> Fail(fromRef.error), relationships |-> rels]
  ELSE IF ~toRef.ok THEN
    [result |-> Fail(toRef.error), relationships |-> rels]
  ELSE IF ~EndpointsAllowed(RELATIONSHIP_TYPE_DEFINITIONS[rel.type],
                            objs[fromId].type, objs[toId].type) THEN
    [result |-> Fail(<<"Invalid endpoints for relationship type",
                       rel.type, objs[fromId].type, objs[toId].type>>),
     relationships |-> rels]
  ELSE
    [result |-> Ok,
     relationships |-> Append(rels,
        [fromId |-> fromId, toId |-> toId, type |-> rel.type,
         attributes |-> Coalesce(rel.attributes, EmptyAttributes)])]

\* EaRepository.addRelationship: the returned value and the list afterwards
addRelationship(objs, rels, rel) ==
  LET fromId == Trim(Coalesce(rel.fromId, <<>>))
      toId == Trim(Coalesce(rel.toId, <<>>))
      fromRef == validateReference(objs, Some(fromId))
      toRef == validateReference(objs, Some(toId))
  IN
  IF fromId = <<>> THEN
    [result |-> Fail(<<"Relationship fromId is required.">>), relationships |-> rels]
  ELSE IF toId = <<>> THEN
    [result |-> Fail(<<"Relationship toId is required.">>), relationships |-> rels]
  ELSE IF ~isValidRelationshipType(rel.type) THEN
    [result |-> Fail(<<"Invalid relationship type", rel.type>>), relationships |-> rels]
  ELSE IF ~fromRef.ok THEN
    [result |-> Fail(fromRef.error), relationships |-> rels]
  ELSE IF ~toRef.ok THEN
    [result |-> Fail(toRef.error), relationships |-> rels]
  ELSE IF rel.type \notin DOMAIN RELATIONSHIP_TYPE_DEFINITIONS THEN
    [result |-> Fail(<<"Invalid relationship type (no definition)", rel.type>>),
     relationships |-> rels]
  ELSE IF fromId \notin DOMAIN objs THEN
    [result |-> Fail(<<"Unknown object id", fromId>>), relationships |-> rels]
  ELSE IF toId \notin DOMAIN objs THEN
    [result |-> Fail(<<"Unknown object id", toId>>), relationships |-> rels]
  ELSE
    LET fromType == objs[fromId].type
        toType == objs[toId].type
    IN
    IF ~EndpointsAllowed(RELATIONSHIP_TYPE_DEFINITIONS[rel.type], fromType, toType) THEN
      [result |-> Fail(<<"Invalid endpoints for relationship type",
                         rel.type, fromType, toType>>),
       relationships |-> rels]
    ELSE
      [result |-> Ok,
       relationships |-> Append(rels,
          [fromId |-> fromId, toId |-> toId, type |-> rel.type,
           attributes |-> Coalesce(rel.attributes, EmptyAttributes)])]

\* a merge in which the prior attributes win over the patch
NextAttributes_PriorWins(existing, patch, mode) ==
  IF Coalesce(mode, "merge") = "replace"
  THEN Spread(EmptyAttributes, Coalesce(patch, EmptyAttributes))
  ELSE Spread(Coalesce(patch, EmptyAttributes), existing.attributes)

\* the attribute record computed by EaRepository.updateObjectAttributes
NextAttributes(existing, patch, mode) ==
  IF Coalesce(mode, "merge") = "replace"
  THEN Spread(EmptyAttributes, Coalesce(patch, EmptyAttributes))
  ELSE Spread(existing.attributes, Coalesce(patch, EmptyAttributes))

\* EaRepository.updateObjectAttributes
updateObjectAttributes(objs, id, patch, mode) ==
  LET key == Trim(Coalesce(id, <<>>)) IN
  IF key = <<>> THEN
    [result |-> Fail(<<"Object id is required.">>), objects |-> objs]
  ELSE IF key \notin DOMAIN objs THEN
    [result |-> Fail(<<"Unknown object id", key>>), objects |-> objs]
  ELSE
    [result |-> Ok,
     objects |-> MapSet(objs, key,
                   [id |-> objs[key].id, type |-> objs[key].type,
                    attributes |-> NextAttributes(objs[key], patch, mode)])]

\* the loops of the constructor: best-effort load, failed items are skipped
RECURSIVE LoadObjects(_, _)
LoadObjects(objs, items) ==
  IF items = <<>> THEN objs
  ELSE LoadObjects(addObject(objs, Head(items)).objects, Tail(items))

RECURSIVE LoadRelationships(_, _, _)
LoadRelationships(objs, rels, items) ==
  IF items = <<>> THEN rels
  ELSE LoadRelationships(objs, addRelationship(objs, rels, Head(items)).relationships,
                         Tail(items))

\* new EaRepository(opts): the two fields after construction
NewEaRepository(opts) ==
  LET objs == LoadObjects(EmptyAttributes, Coalesce(opts.objects, <<>>)) IN
  [objects |-> objs,
   relationships |-> LoadRelationships(objs, <<>>, Coalesce(opts.relationships, <<>>))]

\* a clone that forgets to copy the objects
CloneObjects_Empty(objs) == EmptyAttributes

\* EaRepository.clone: the fields of the new instance
CloneObjects(objs) ==
  [id \in DOMAIN objs |->
     [id |-> objs[id].id, type |-> objs[id].type,
      attributes |-> Spread(EmptyAttributes, objs[id].attributes)]]

CloneRelationships(rels) ==
  [i \in 1..Len(rels) |->
     [fromId |-> rels[i].fromId, toId |-> rels[i].toId, type |-> rels[i].type,
      attributes |-> Spread(EmptyAttributes, rels[i].attributes)]]

----------------------------------------------------------------------------
(* EaRepository instances                                                  *)

\* this.objects and this.relationships of the instance named h
objects(h) == heapObjects[handles[h].objects]
relationships(h) == heapRels[handles[h].relationships]

Instances == DOMAIN handles

FreshRef(heap) == Cardinality(DOMAIN heap) + 1

PureIdle == arg = None /\ out = None

\* an empty ViewRepository on which nothing was called
ViewsIdle ==
  /\ viewHeap = <<>>
  /\ byId = <<>>
  /\ idByNormalizedName = <<>>
  /\ viewResult = [name |-> "none", value |-> None]

\* the two store modules as loaded: no singleton, revisions 0
StoresIdle ==
  /\ repository = None
  /\ repositoryRevision = 0
  /\ activeProject = None
  /\ viewRepository = None
  /\ viewsRevision = 0
  /\ dispatched = <<>>
  /\ hasWindow = TRUE
  /\ storeResult = [name |-> "none", value |-> None]

BackendIdle == ViewsIdle /\ StoresIdle

\* no EaRepositoryProvider is mounted
ContextIdle ==
  /\ eaRepository = None
  /\ metadata = None
  /\ capturedMetadata = None
  /\ undoStack = <<>>
  /\ redoStack = <<>>
  /\ lastSerialized = None
  /\ suppressHistory = FALSE
  /\ lastSaveBlockedKey = None
  /\ lastAdvisoryWarnKey = None
  /\ canUndo = FALSE
  /\ canRedo = FALSE
  /\ storage = None
  /\ now = 0
  /\ emitted = <<>>
  /\ returned = [name |-> "mount", value |-> None]

\* h.addObject(object)
AddObject(h, object) ==
  LET r == addObject(objects(h), object) IN
  /\ heapObjects' = [heapObjects EXCEPT ![handles[h].objects] = r.objects]
  /\ result' = Some(r.result)
  /\ lastOp' = [name |-> "addObject", on |-> h]
  /\ UNCHANGED <<backendVars, heapRels, handles, pureVars, ctxVars>>

\* h.addRelationship(rel)
AddRelationship(h, rel, maxRels) ==
  LET r == addRelationship(objects(h), relationships(h), rel) IN
  /\ Len(r.relationships) <= maxRels
  /\ heapRels' = [heapRels EXCEPT ![handles[h].relationships] = r.relationships]
  /\ result' = Some(r.result)
  /\ lastOp' = [name |-> "addRelationship", on |-> h]
  /\ UNCHANGED <<backendVars, heapObjects, handles, pureVars, ctxVars>>

\* h.updateObjectAttributes(id, patch, mode)
UpdateObjectAttributes(h, id, patch, mode) ==
  LET r == updateObjectAttributes(objects(h), id, patch, mode) IN
  /\ heapObjects' = [heapObjects EXCEPT ![handles[h].objects] = r.objects]
  /\ result' = Some(r.result)
  /\ lastOp' = [name |-> "updateObjectAttributes", on |-> h]
  /\ UNCHANGED <<backendVars, heapRels, handles, pureVars, ctxVars>>

\* a shallow clone: the new instance shares the relationship array
Clone_SharesRelationships(h, c) ==
  LET o == FreshRef(heapObjects) IN
  /\ c \notin Instances
  /\ heapObjects' = (o :> CloneObjects(objects(h))) @@ heapObjects
  /\ heapRels' = heapRels
  /\ handles' = (c :> [objects |-> o, relationships |-> handles[h].relationships]) @@ handles
  /\ result' = None
  /\ lastOp' = [name |-> "clone", on |-> h]
  /\ UNCHANGED <<backendVars, pureVars, ctxVars>>

\* c = h.clone()
Clone(h, c) ==
  LET o == FreshRef(heapObjects)
      r == FreshRef(heapRels)
  IN
  /\ c \notin Instances
  /\ heapObjects' = (o :> CloneObjects(objects(h))) @@ heapObjects
  /\ heapRels' = (r :> CloneRelationships(relationships(h))) @@ heapRels
  /\ handles' = (c :> [objects |-> o, relationships |-> r]) @@ handles
  /\ result' = None
  /\ lastOp' = [name |-> "clone", on |-> h]
  /\ UNCHANGED <<backendVars, pureVars, ctxVars>>

\* repo = new EaRepository(opts)
Construct(opts) ==
  LET r == NewEaRepository(opts) IN
  /\ heapObjects = (1 :> r.objects)
  /\ heapRels = (1 :> r.relationships)
  /\ handles = ("repo" :> [objects |-> 1, relationships |-> 1])
  /\ lastOp = [name |-> "constructor", on |-> "repo"]
  /\ result = None

----------------------------------------------------------------------------
(* Inputs of the calls                                                     *)

SeqsUpTo(S, n) == UNION { [1..k -> S] : k \in 0..n }

\* ids as callers pass them: known (bare or padded), missing or blank, unknown
KnownIds == { Some(<<"a">>), Some(<<SP, "a", SP>>), Some(<<"b">>) }
BlankIds == { None, Some(<<SP>>) }
UnknownIds == { Some(<<"z">>) }

IdInputs == KnownIds \cup BlankIds
RefInputs == KnownIds \cup BlankIds \cup UnknownIds

TypeInputs == { "Application", "Technology", "Server" }

AttributeInputs == { None, Some([name |-> "x", owner |-> "o"]) }

PatchInputs == { None, Some([name |-> "y"]) }

ModeInputs == { None, Some("merge"), Some("replace") }

RelTypeInputs == { "DEPENDS_ON", "HOSTED_ON", "USES" }

ObjectInputs == [id : IdInputs, type : TypeInputs, attributes : AttributeInputs]

RelationshipInputs ==
  [fromId : KnownIds, toId : KnownIds, type : RelTypeInputs, attributes : { None }]
  \cup [fromId : BlankIds \cup UnknownIds, toId : RefInputs, type : { "DEPENDS_ON", "USES" },
        attributes : { None }]
  \cup [fromId : { Some(<<"a">>) }, toId : BlankIds \cup UnknownIds,
        type : { "DEPENDS_ON", "USES" }, attributes : { None }]
  \cup [fromId : { Some(<<"b">>) }, toId : { Some(<<"b">>) }, type : { "DEPENDS_ON" },
        attributes : { Some([dependencyType |-> "sync"]) }]

\* items of the lists handed to the constructor, valid and invalid ones
CtorObjectItems ==
  { [id |-> Some(<<"a">>), type |-> "Application", attributes |-> Some([name |-> "x"])],
    [id |-> Some(<<SP, "a", SP>>), type |-> "Technology", attributes |-> None],
    [id |-> Some(<<"b">>), type |-> "Server", attributes |-> None],
    [id |-> Some(<<"b">>), type |-> "Technology", attributes |-> None] }

CtorRelationshipItems ==
  { [fromId |-> Some(<<"a">>), toId |-> Some(<<"b", SP>>), type |-> "HOSTED_ON",
     attributes |-> None],
    [fromId |-> Some(<<"b">>), toId |-> Some(<<"a">>), type |-> "HOSTED_ON",
     attributes |-> None],
    [fromId |-> Some(<<"a">>), toId |-> Some(<<"z">>), type |-> "DEPENDS_ON",
     attributes |-> None] }

CtorInputs ==
  [objects : { None } \cup { Some(l) : l \in SeqsUpTo(CtorObjectItems, MaxCtorItems) },
   relationships :
     { None } \cup { Some(l) : l \in SeqsUpTo(CtorRelationshipItems, MaxCtorItems) }]

----------------------------------------------------------------------------
(* Spec: one EaRepository instance under its public operations             *)

Init == PureIdle /\ ContextIdle /\ BackendIdle /\ \E opts \in CtorInputs : Construct(opts)

DoAddObject == \E object \in ObjectInputs : AddObject("repo", object)

DoAddRelationship ==
  \E rel \in RelationshipInputs : AddRelationship("repo", rel, MaxRels)

DoUpdateObjectAttributes ==
  \E id \in RefInputs, patch \in PatchInputs, mode \in ModeInputs :
    UpdateObjectAttributes("repo", id, patch, mode)

Next == DoAddObject \/ DoAddRelationship \/ DoUpdateObjectAttributes

Spec == Init /\ [][Next]_vars

----------------------------------------------------------------------------
(* Properties of one EaRepository instance (checked under Spec)            *)

MutatingOps == { "addObject", "addRelationship", "updateObjectAttributes" }

Returned == TheValue(result)

\* the fields of instance h after the step
objectsAfter(h) == heapObjects'[handles'[h].objects]
relationshipsAfter(h) == heapRels'[handles'[h].relationships]

\* C1: every call of addObject, addRelationship or updateObjectAttributes
\* returns {ok:true} or {ok:false, error}; a call that returns ok:false
\* leaves every object map and every relationship list as it was.
C1_FailedCallLeavesRepositoryUnchanged ==
  [][ lastOp'.name \in MutatingOps =>
        /\ result' # None
        /\ TheValue(result').ok \in BOOLEAN
        /\ ( TheValue(result').ok => DOMAIN TheValue(result') = { "ok" } )
        /\ ( ~TheValue(result').ok =>
               /\ DOMAIN TheValue(result') = { "ok", "error" }
               /\ heapObjects' = heapObjects
               /\ heapRels' = heapRels
               /\ handles' = handles ) ]_vars

\* a failing addRelationship has been made on a repository that holds
\* objects and a relationship
C1_Witness ==
  /\ lastOp.name = "addRelationship"
  /\ ~Returned.ok
  /\ DOMAIN objects("repo") # {}
  /\ Len(relationships("repo")) > 0

\* C4 as stated: addObject with an id that, trimmed, is already present
\* fails with the duplicate-id error whatever else is passed, and the map is
\* unchanged.
C4_DuplicateIdAlwaysReported ==
  [][ lastOp'.name = "addObject" => \A object \in ObjectInputs :
        ( /\ AddObject("repo", object)
          /\ Trim(Coalesce(object.id, <<>>)) \in DOMAIN objects("repo") )
        => /\ result' = Some(Fail(<<"Duplicate object id", Trim(Coalesce(object.id, <<>>))>>))
           /\ objectsAfter("repo") = objects("repo") ]_vars

\* C4 (amended): addObject with an id that, trimmed, is already present
\* always fails and leaves the object map unchanged; the error is the
\* duplicate-id error when the type passed is a valid object type and the
\* invalid-type error otherwise.  So no id is ever inserted twice.
C4_DuplicateIdRejected ==
  [][ lastOp'.name = "addObject" => \A object \in ObjectInputs :
        ( /\ AddObject("repo", object)
          /\ Trim(Coalesce(object.id, <<>>)) \in DOMAIN objects("repo") )
        => /\ objectsAfter("repo") = objects("repo")
           /\ result' =
                IF object.type \in ObjectTypeSet
                THEN Some(Fail(<<"Duplicate object id", Trim(Coalesce(object.id, <<>>))>>))
                ELSE Some(Fail(<<"Invalid object type", object.type>>)) ]_vars

\* a duplicate-id rejection has been returned for an object that is present
C4_Witness ==
  /\ lastOp.name = "addObject"
  /\ ~Returned.ok
  /\ Returned.error[1] = "Duplicate object id"
  /\ Returned.error[2] \in DOMAIN objects("repo")

\* C6: updateObjectAttributes(id, patch, mode) on an existing id succeeds and
\* yields, in replace mode, exactly the patch and, in merge mode, the prior
\* attributes overridden key by key by the patch; id and type of the object,
\* every other object and every relationship are unchanged.  On a blank or
\* unknown id it fails (and changes nothing).
C6_UpdateObjectAttributes ==
  [][ lastOp'.name = "updateObjectAttributes" =>
      \A id \in RefInputs, patch \in PatchInputs, mode \in ModeInputs :
        UpdateObjectAttributes("repo", id, patch, mode) =>
          LET key == Trim(Coalesce(id, <<>>))
              p == Coalesce(patch, EmptyAttributes)
              before == objects("repo")
              after == objectsAfter("repo")
          IN
          IF key \in DOMAIN before THEN
            /\ result' = Some(Ok)
            /\ DOMAIN after = DOMAIN before
            /\ \A other \in DOMAIN before \ { key } : after[other] = before[other]
            /\ after[key].id = before[key].id
            /\ after[key].type = before[key].type
            /\ relationshipsAfter("repo") = relationships("repo")
            /\ IF mode = Some("replace")
               THEN after[key].attributes = p
               ELSE /\ DOMAIN after[key].attributes =
                         DOMAIN before[key].attributes \cup DOMAIN p
                    /\ \A k \in DOMAIN p : after[key].attributes[k] = p[k]
                    /\ \A k \in DOMAIN before[key].attributes \ DOMAIN p :
                         after[key].attributes[k] = before[key].attributes[k]
          ELSE
            /\ ~TheValue(result').ok
            /\ after = before
            /\ relationshipsAfter("repo") = relationships("repo") ]_vars

\* a merge has overridden one key of an object and kept another
C6_Witness ==
  /\ lastOp.name = "updateObjectAttributes"
  /\ Returned.ok
  /\ \E id \in DOMAIN objects("repo") :
       objects("repo")[id].attributes = [name |-> "y", owner |-> "o"]

----------------------------------------------------------------------------
(* SpecEndpoints: addRelationship between two objects of every pair of     *)
(* object types, for every relationship type                               *)

\* Init ranges over every ordered pair of types, so one direction is enough
EndpointInputs ==
  [fromId : { Some(<<"a">>) }, toId : { Some(<<"b">>) }, type : RelationshipTypeSet,
   attributes : { None }]

InitEndpoints ==
  /\ PureIdle
  /\ ContextIdle
  /\ BackendIdle
  /\ \E F \in ObjectTypeSet, T \in ObjectTypeSet :
       Construct([objects |->
                    Some(<< [id |-> Some(<<"a">>), type |-> F, attributes |-> None],
                            [id |-> Some(<<"b">>), type |-> T, attributes |-> None] >>),
                  relationships |-> None])

DoAddEndpointRelationship ==
  \E rel \in EndpointInputs : AddRelationship("repo", rel, MaxRels)

NextEndpoints == DoAddEndpointRelationship

SpecEndpoints == InitEndpoints /\ [][NextEndpoints]_vars

\* C2: for existing objects of types F and T and every relationship type R,
\* addRelationship succeeds and appends exactly one relationship iff F is in
\* RELATIONSHIP_TYPE_DEFINITIONS[R].fromTypes and T in its toTypes; otherwise
\* it fails with the invalid-endpoints error and appends nothing.
C2_EndpointGate ==
  [][ \A rel \in EndpointInputs :
        AddRelationship("repo", rel, MaxRels) =>
          LET from == TheValue(rel.fromId)
              to == TheValue(rel.toId)
              F == objects("repo")[from].type
              T == objects("repo")[to].type
              def == RELATIONSHIP_TYPE_DEFINITIONS[rel.type]
              admitted == /\ \E i \in DOMAIN def.fromTypes : def.fromTypes[i] = F
                          /\ \E i \in DOMAIN def.toTypes : def.toTypes[i] = T
          IN
          IF admitted THEN
            /\ result' = Some(Ok)
            /\ relationshipsAfter("repo") =
                 Append(relationships("repo"),
                        [fromId |-> from, toId |-> to, type |-> rel.type,
                         attributes |-> EmptyAttributes])
          ELSE
            /\ result' = Some(Fail(<<"Invalid endpoints for relationship type",
                                     rel.type, F, T>>))
            /\ relationshipsAfter("repo") = relationships("repo") ]_vars

\* a DELIVERS relationship from a Programme to a SubCapability was accepted
C2_Witness ==
  /\ lastOp.name = "addRelationship"
  /\ Returned.ok
  /\ Len(relationships("repo")) = 1
  /\ relationships("repo")[1].type = "DELIVERS"
  /\ relationships("repo")[1].fromId # relationships("repo")[1].toId
  /\ objects("repo")[relationships("repo")[1].fromId].type = "Programme"
  /\ objects("repo")[relationships("repo")[1].toId].type = "SubCapability"

----------------------------------------------------------------------------
(* SpecClone: an EaRepository and its clone, both under the public         *)
(* operations                                                              *)

CloneObjectInputs ==
  [id : { Some(<<"a">>), Some(<<SP, "a", SP>>), Some(<<"b">>), None },
   type : { "Application", "Technology" }, attributes : { None }]
  \cup { [id |-> Some(<<"b">>), type |-> "Server", attributes |-> None] }

CloneRelationshipInputs ==
  [fromId : { Some(<<"a">>) }, toId : { Some(<<"a">>), Some(<<"b">>), Some(<<"z">>) },
   type : { "DEPENDS_ON", "HOSTED_ON" }, attributes : { None }]
  \cup { [fromId |-> Some(<<"b">>), toId |-> Some(<<"a">>), type |-> "HOSTED_ON",
          attributes |-> Some([dependencyType |-> "sync"])] }

CloneUpdateIds == { Some(<<"a">>), Some(<<"z">>) }

InitClone == Init

OnAnyAddObject ==
  \E h \in Instances, object \in CloneObjectInputs : AddObject(h, object)

OnAnyAddRelationship ==
  \E h \in Instances, rel \in CloneRelationshipInputs :
    AddRelationship(h, rel, MaxCloneRels)

OnAnyUpdateObjectAttributes ==
  \E h \in Instances, id \in CloneUpdateIds :
    UpdateObjectAttributes(h, id, Some([name |-> "y"]), None)

DoClone == Clone("repo", "c")

NextClone ==
  OnAnyAddObject \/ OnAnyAddRelationship \/ OnAnyUpdateObjectAttributes \/ DoClone

SpecClone == InitClone /\ [][NextClone]_vars

\* every relationship of instance h joins two objects held by h whose types
\* the relationship type admits
Integrity(h) ==
  \A i \in 1..Len(relationships(h)) :
    LET r == relationships(h)[i]
        def == RELATIONSHIP_TYPE_DEFINITIONS[r.type]
    IN
    /\ r.type \in RelationshipTypeSet
    /\ r.fromId \in DOMAIN objects(h)
    /\ r.toId \in DOMAIN objects(h)
    /\ \E k \in DOMAIN def.fromTypes : def.fromTypes[k] = objects(h)[r.fromId].type
    /\ \E k \in DOMAIN def.toTypes : def.toTypes[k] = objects(h)[r.toId].type

\* C3: in every state reached through the constructor, addObject,
\* addRelationship, updateObjectAttributes and clone, the endpoints of every
\* relationship are ids of objects in the object map with types admitted by
\* the relationship type; and an object, once inserted, stays in the map
\* with the same id and type.
C3_ReferentialIntegrity ==
  /\ [](\A h \in Instances : Integrity(h))
  /\ [][ \A h \in Instances : \A id \in DOMAIN objects(h) :
           /\ id \in DOMAIN objectsAfter(h)
           /\ objectsAfter(h)[id].id = objects(h)[id].id
           /\ objectsAfter(h)[id].type = objects(h)[id].type
           /\ objects(h)[id].id = id ]_vars

\* the clone holds a relationship, and an endpoint of it has been updated
C3_Witness ==
  /\ "c" \in Instances
  /\ lastOp = [name |-> "updateObjectAttributes", on |-> "c"]
  /\ Returned.ok
  /\ \E i \in 1..Len(relationships("c")) :
       objects("c")[relationships("c")[i].fromId].attributes = [name |-> "y"]

\* C5: once the clone exists, a call of addObject, addRelationship or
\* updateObjectAttributes on one of the two instances leaves the objects,
\* their attributes and the relationships of the other instance unchanged.
C5_CloneIsIndependent ==
  [][ ( lastOp'.name \in MutatingOps /\ "c" \in Instances ) =>
        \A h \in Instances \ { lastOp'.on } :
          /\ objectsAfter(h) = objects(h)
          /\ relationshipsAfter(h) = relationships(h) ]_vars

\* both instances have been changed after the clone was taken and differ in
\* objects and in relationships
C5_Witness ==
  /\ "c" \in Instances
  /\ lastOp.name = "addRelationship"
  /\ Returned.ok
  /\ Len(relationships("c")) # Len(relationships("repo"))
  /\ DOMAIN objects("c") # DOMAIN objects("repo")
  /\ \E id \in DOMAIN objects("repo") \cap DOMAIN objects("c") :
       objects("repo")[id].attributes # objects("c")[id].attributes

----------------------------------------------------------------------------
(* RelationshipSemantics: the canonical endpoint rules                     *)

RELATIONSHIP_ENDPOINT_RULES ==
  [ DECOMPOSES_TO |-> [from |-> <<"Capability">>, to |-> <<"Capability">>],
    REALIZES |-> [from |-> <<"BusinessProcess">>, to |-> <<"Application">>],
    OWNS |-> [from |-> <<"Enterprise">>,
              to |-> <<"Enterprise", "Capability", "Application", "Programme">>],
    HAS |-> [from |-> <<"Enterprise">>, to |-> <<"Department">>],
    REALIZED_BY |-> [from |-> <<"Capability">>, to |-> <<"BusinessService">>],
    PROVIDES |-> [from |-> <<"Application">>, to |-> <<"ApplicationService">>],
    SUPPORTS |-> [from |-> <<"ApplicationService">>, to |-> <<"BusinessService">>],
    SUPPORTED_BY |-> [from |-> <<"Capability">>, to |-> <<"Application">>],
    DEPENDS_ON |-> [from |-> <<"Application">>, to |-> <<"Application">>],
    HOSTED_ON |-> [from |-> <<"Application">>, to |-> <<"Technology">>],
    IMPACTS |-> [from |-> <<"Programme">>, to |-> <<"Capability">>],
    IMPLEMENTS |-> [from |-> <<"Project">>, to |-> <<"Application">>],
    DELIVERS |-> [from |-> <<"Programme">>,
                  to |-> <<"Capability", "Application", "Technology">>] ]

\* the string a one-chunk token sequence stands for
ChunkOf(s) == IF Len(s) = 1 /\ s[1] # SP THEN Some(s[1]) ELSE None

\* getRelationshipEndpointRule: the rule, or null
getRelationshipEndpointRule(type) ==
  LET key == ChunkOf(Trim(Coalesce(type, <<>>))) IN
  IF key # None /\ TheValue(key) \in DOMAIN RELATIONSHIP_ENDPOINT_RULES
  THEN Some(RELATIONSHIP_ENDPOINT_RULES[TheValue(key)])
  ELSE None

\* the canonical rule of relType admits the pair (fromType, toType)
CanonicalRuleAdmits(fromType, relType, toType) ==
  LET rule == getRelationshipEndpointRule(Some(<<relType>>)) IN
  /\ rule # None
  /\ SeqIncludes(TheValue(rule).from, fromType)
  /\ SeqIncludes(TheValue(rule).to, toType)

\* the relationship-type definition of relType admits the pair
DefinitionAdmits(fromType, relType, toType) ==
  /\ relType \in DOMAIN RELATIONSHIP_TYPE_DEFINITIONS
  /\ EndpointsAllowed(RELATIONSHIP_TYPE_DEFINITIONS[relType], fromType, toType)

----------------------------------------------------------------------------
(* referenceFrameworkPolicy                                                *)

ARCHIMATE_RELATIONSHIPS ==
  << "DECOMPOSES_TO", "REALIZES", "DEPENDS_ON", "HOSTED_ON", "IMPACTS" >>

DEFAULT_POLICY == [allowedRelationshipTypes |-> <<>>]

\* a policy that applies the ArchiMate list to every framework
getFrameworkRelationshipPolicy_AlwaysArchiMate(referenceFramework) ==
  [allowedRelationshipTypes |-> ARCHIMATE_RELATIONSHIPS]

getFrameworkRelationshipPolicy(referenceFramework) ==
  IF referenceFramework = Some("ArchiMate")
  THEN [allowedRelationshipTypes |-> ARCHIMATE_RELATIONSHIPS]
  ELSE DEFAULT_POLICY

isRelationshipTypeAllowedForReferenceFramework(referenceFramework, relationshipType) ==
  LET t == Trim(Coalesce(relationshipType, <<>>))
      policy == getFrameworkRelationshipPolicy(referenceFramework)
  IN
  IF t = <<>> THEN FALSE
  ELSE IF Len(policy.allowedRelationshipTypes) = 0 THEN TRUE
  ELSE ChunkOf(t) # None
       /\ SeqIncludes(policy.allowedRelationshipTypes, TheValue(ChunkOf(t)))

----------------------------------------------------------------------------
(* architectureScopePolicy                                                 *)

\* OBJECT_TYPE_DEFINITIONS[objectType]?.layer
LayerOf(objectType) ==
  IF objectType \in DOMAIN OBJECT_TYPE_LAYER
  THEN Some(OBJECT_TYPE_LAYER[objectType]) ELSE None

\* a Domain policy that forgets the two service types
isObjectTypeWritableForScope_DomainWithoutServices(architectureScope, objectType) ==
  LET layer == LayerOf(objectType) IN
  IF architectureScope = Some("Programme") THEN
    objectType \in { "Programme", "Project", "Capability", "Application" }
  ELSE IF architectureScope = Some("Business Unit") THEN
    layer \in { Some("Business"), Some("Application"), Some("Technology") }
  ELSE IF architectureScope = Some("Domain") THEN
    objectType \in { "Capability", "Application" }
  ELSE TRUE

isObjectTypeWritableForScope(architectureScope, objectType) ==
  LET layer == LayerOf(objectType) IN
  IF architectureScope = Some("Programme") THEN
    \/ objectType = "Programme"
    \/ objectType = "Project"
    \/ objectType = "Capability"
    \/ objectType = "Application"
  ELSE IF architectureScope = Some("Business Unit") THEN
    layer = Some("Business") \/ layer = Some("Application") \/ layer = Some("Technology")
  ELSE IF architectureScope = Some("Domain") THEN
    \/ objectType = "Capability"
    \/ objectType = "BusinessService"
    \/ objectType = "Application"
    \/ objectType = "ApplicationService"
  ELSE TRUE

isAnyObjectTypeWritableForScope(architectureScope, objectType) ==
  IF objectType = None THEN FALSE
  ELSE IF ~isValidObjectType(TheValue(objectType)) THEN FALSE
  ELSE isObjectTypeWritableForScope(architectureScope, TheValue(objectType))

\* getReadOnlyReason: the reason, or null
getReadOnlyReason(architectureScope, objectType) ==
  IF objectType = None \/ ~isValidObjectType(TheValue(objectType)) THEN
    IF architectureScope = Some("Programme") THEN Some("Read-only in Programme scope.")
    ELSE IF architectureScope = Some("Business Unit")
      THEN Some("Read-only in Business Unit scope.")
    ELSE IF architectureScope = Some("Domain") THEN Some("Read-only in Domain scope.")
    ELSE None
  ELSE
    LET t == TheValue(objectType)
        layer == LayerOf(t)
    IN
    IF architectureScope = Some("Business Unit") THEN
      IF layer = Some("Business") \/ layer = Some("Application") \/ layer = Some("Technology")
      THEN None
      ELSE Some("Read-only in Business Unit scope: only Business + Application + Technology layers are editable.")
    ELSE IF architectureScope = Some("Domain") THEN
      IF t = "Capability" \/ t = "BusinessService" \/ t = "Application"
         \/ t = "ApplicationService"
      THEN None
      ELSE Some("Read-only in Domain scope: only Capabilities + Business Services + Applications + Application Services are editable.")
    ELSE IF architectureScope = Some("Programme") THEN
      IF t = "Programme" \/ t = "Project" \/ t = "Capability" \/ t = "Application"
      THEN None
      ELSE Some("Read-only in Programme scope: only Programmes, Projects, impacted Capabilities, and impacted Applications are editable.")
    ELSE None

----------------------------------------------------------------------------
(* SpecPolicy: the metamodel tables and the policy functions, evaluated on *)
(* every input                                                             *)

ScopeInputs ==
  { None, Some("Enterprise"), Some("Business Unit"), Some("Domain"), Some("Programme") }

FrameworkInputs == { None, Some("ArchiMate"), Some("TOGAF"), Some("Custom") }

RelationshipTypeStrings ==
  { Some(<<t>>) : t \in RelationshipTypeSet }
  \cup { None, Some(<<>>), Some(<<SP>>), Some(<<SP, "OWNS">>), Some(<<"REALIZES", SP>>),
         Some(<<"USES">>) }

ObjectTypeStrings == { Some(t) : t \in ObjectTypeSet } \cup { None, Some("Server") }

PolicyInputs ==
  [fn : { "endpointTables" }, fromType : ObjectTypeSet, relationshipType : RelationshipTypeSet,
   toType : ObjectTypeSet]
  \cup [fn : { "isObjectTypeWritableForScope" }, scope : ScopeInputs,
        objectType : ObjectTypeSet]
  \cup [fn : { "getReadOnlyReason" }, scope : ScopeInputs, objectType : ObjectTypeStrings]
  \cup [fn : { "isRelationshipTypeAllowedForReferenceFramework" },
        framework : FrameworkInputs, relationshipType : RelationshipTypeStrings]

RepositoryIdle ==
  /\ heapObjects = <<>>
  /\ heapRels = <<>>
  /\ handles = <<>>
  /\ lastOp = [name |-> "none", on |-> "none"]
  /\ result = None

InitPolicy == RepositoryIdle /\ ContextIdle /\ BackendIdle /\ arg \in PolicyInputs /\ out = None

Evaluate(fn, value) ==
  /\ arg.fn = fn
  /\ out = None
  /\ out' = Some(value)
  /\ UNCHANGED <<backendVars, repoVars, arg, ctxVars>>

EvalEndpointTables ==
  /\ arg.fn = "endpointTables"
  /\ Evaluate("endpointTables",
       [canonical |-> CanonicalRuleAdmits(arg.fromType, arg.relationshipType, arg.toType),
        definition |-> DefinitionAdmits(arg.fromType, arg.relationshipType, arg.toType)])

EvalIsObjectTypeWritableForScope ==
  /\ arg.fn = "isObjectTypeWritableForScope"
  /\ Evaluate("isObjectTypeWritableForScope",
       isObjectTypeWritableForScope(arg.scope, arg.objectType))

EvalGetReadOnlyReason ==
  /\ arg.fn = "getReadOnlyReason"
  /\ Evaluate("getReadOnlyReason", getReadOnlyReason(arg.scope, arg.objectType))

EvalIsRelationshipTypeAllowed ==
  /\ arg.fn = "isRelationshipTypeAllowedForReferenceFramework"
  /\ Evaluate("isRelationshipTypeAllowedForReferenceFramework",
       isRelationshipTypeAllowedForReferenceFramework(arg.framework, arg.relationshipType))

NextPolicy ==
  \/ EvalEndpointTables
  \/ EvalIsObjectTypeWritableForScope
  \/ EvalGetReadOnlyReason
  \/ EvalIsRelationshipTypeAllowed

SpecPolicy == InitPolicy /\ [][NextPolicy]_vars

Evaluated(fn) == arg.fn = fn /\ out # None

\* C7: for every (fromType, relationshipType, toType) the canonical endpoint
\* rule admits the pair exactly when the relationship-type definition does.
C7_EndpointTablesAgree ==
  Evaluated("endpointTables") => TheValue(out).canonical = TheValue(out).definition

\* the (scope, type) pairs that are writable
WritablePairs ==
  { <<scope, t>> \in ScopeInputs \X ObjectTypeSet :
      \/ scope = Some("Business Unit")
           /\ OBJECT_TYPE_LAYER[t] \in { "Business", "Application", "Technology" }
      \/ scope = Some("Domain")
           /\ t \in { "Capability", "BusinessService", "Application", "ApplicationService" }
      \/ scope = Some("Programme")
           /\ t \in { "Programme", "Project", "Capability", "Application" }
      \/ scope \in { Some("Enterprise"), None } }

\* C8: for every object type of the metamodel, isObjectTypeWritableForScope
\* is true exactly for: Business Unit scope and a type of the Business,
\* Application or Technology layer; Domain scope and Capability,
\* BusinessService, Application or ApplicationService; Programme scope and
\* Programme, Project, Capability or Application; Enterprise or no scope and
\* any type.  getReadOnlyReason is null for exactly these pairs and a
\* non-empty reason for all others.
C8_ScopeWritability ==
  /\ Evaluated("isObjectTypeWritableForScope") =>
       ( TheValue(out) <=> <<arg.scope, arg.objectType>> \in WritablePairs )
  /\ ( Evaluated("getReadOnlyReason")
       /\ arg.objectType # None /\ TheValue(arg.objectType) \in ObjectTypeSet ) =>
       /\ TheValue(out) = None <=>
            <<arg.scope, TheValue(arg.objectType)>> \in WritablePairs
       /\ TheValue(out) # None => TheValue(TheValue(out)) # ""

\* Technology was found read-only in Domain scope, with a reason
C8_Witness ==
  /\ Evaluated("getReadOnlyReason")
  /\ arg.scope = Some("Domain")
  /\ arg.objectType = Some("Technology")
  /\ TheValue(out) # None

\* C9: with the ArchiMate framework a relationship type is allowed exactly
\* when it is DECOMPOSES_TO, REALIZES, DEPENDS_ON, HOSTED_ON or IMPACTS; with
\* any other framework, or none, every relationship type is allowed.
C9_FrameworkAllowList ==
  ( Evaluated("isRelationshipTypeAllowedForReferenceFramework")
    /\ arg.relationshipType \in { Some(<<t>>) : t \in RelationshipTypeSet } ) =>
    ( TheValue(out) <=>
        \/ arg.framework # Some("ArchiMate")
        \/ TheValue(arg.relationshipType)[1] \in
             { "DECOMPOSES_TO", "REALIZES", "DEPENDS_ON", "HOSTED_ON", "IMPACTS" } )

\* OWNS was refused under ArchiMate
C9_Witness ==
  /\ Evaluated("isRelationshipTypeAllowedForReferenceFramework")
  /\ arg.framework = Some("ArchiMate")
  /\ arg.relationshipType = Some(<<"OWNS">>)
  /\ TheValue(out) = FALSE

----------------------------------------------------------------------------
(* EaRepositoryContext: repositories as values                             *)
(*                                                                         *)
(* The context never changes an EaRepository in place: callers clone the   *)
(* current one and propose the clone.  A repository is therefore a value   *)
(* here: the object map, the insertion order of its keys (the order in     *)
(* which a Map is iterated and serialized) and the relationship list.      *)

EmptyRepository == [order |-> <<>>, objects |-> EmptyAttributes, relationships |-> <<>>]

\* repo.addObject(object) on a value
RepoAddObject(repo, object) ==
  LET r == addObject(repo.objects, object) IN
  [result |-> r.result,
   repo |-> [order |-> IF r.result.ok
                       THEN Append(repo.order, Trim(Coalesce(object.id, <<>>)))
                       ELSE repo.order,
             objects |-> r.objects,
             relationships |-> repo.relationships]]

\* repo.addRelationship(rel) on a value
RepoAddRelationship(repo, rel) ==
  LET r == addRelationship(repo.objects, repo.relationships, rel) IN
  [result |-> r.result,
   repo |-> [order |-> repo.order, objects |-> repo.objects,
             relationships |-> r.relationships]]

\* repo.updateObjectAttributes(id, patch, mode) on a value
RepoUpdateObjectAttributes(repo, id, patch, mode) ==
  LET r == updateObjectAttributes(repo.objects, id, patch, mode) IN
  [result |-> r.result,
   repo |-> [order |-> repo.order, objects |-> r.objects,
             relationships |-> repo.relationships]]

\* repo.clone() on a value
RepoClone(repo) ==
  [order |-> repo.order, objects |-> CloneObjects(repo.objects),
   relationships |-> CloneRelationships(repo.relationships)]

RECURSIVE RepoLoadObjects(_, _)
RepoLoadObjects(repo, items) ==
  IF items = <<>> THEN repo
  ELSE RepoLoadObjects(RepoAddObject(repo, Head(items)).repo, Tail(items))

RECURSIVE RepoLoadRelationships(_, _)
RepoLoadRelationships(repo, items) ==
  IF items = <<>> THEN repo
  ELSE RepoLoadRelationships(RepoAddRelationship(repo, Head(items)).repo, Tail(items))

\* new EaRepository({ objects, relationships }) as a value
RepoNew(objectItems, relationshipItems) ==
  RepoLoadRelationships(RepoLoadObjects(EmptyRepository, objectItems), relationshipItems)

\* Array.from(repo.objects.values())
ObjectValues(repo) == [i \in 1..Len(repo.order) |-> repo.objects[repo.order[i]]]

\* (attributes as any)?._deleted === true
IsSoftDeleted(attributes) ==
  "_deleted" \in DOMAIN attributes /\ attributes["_deleted"] = TRUE

----------------------------------------------------------------------------
(* EaRepositoryContext: the gates of setEaRepository                       *)

HISTORY_LIMIT == 50

\* stableStringify on attribute records: keys sorted, values encoded one to
\* one, so two records give one string exactly when they are equal; the
\* record itself stands for the string
stableStringify(value) == value

countLiveObjectsByType(repo, type) ==
  Cardinality({ id \in DOMAIN repo.objects :
                  /\ repo.objects[id].type = type
                  /\ ~IsSoftDeleted(repo.objects[id].attributes) })

\* the first index of seq that satisfies Test, or 0
FirstIndex(seq, Test(_)) ==
  IF \E i \in 1..Len(seq) : Test(seq[i])
  THEN CHOOSE i \in 1..Len(seq) : Test(seq[i]) /\ \A j \in 1..(i - 1) : ~Test(seq[j])
  ELSE 0

\* a gate that does not count the Enterprise roots
hasBusinessUnitScopeViolations_AnyRootCount(repo) ==
  LET Offends(r) ==
        /\ r.type = "OWNS"
        /\ r.fromId \in DOMAIN repo.objects
        /\ r.toId \in DOMAIN repo.objects
        /\ ~IsSoftDeleted(repo.objects[r.fromId].attributes)
        /\ ~IsSoftDeleted(repo.objects[r.toId].attributes)
        /\ repo.objects[r.fromId].type = "Enterprise"
        /\ repo.objects[r.toId].type = "Enterprise"
  IN
  IF FirstIndex(repo.relationships, Offends) # 0
  THEN Some(<<"Enterprise-to-Enterprise ownership is disabled in Business Unit scope.">>)
  ELSE None

\* a gate that looks for Enterprise-to-Enterprise ownership first
hasBusinessUnitScopeViolations_OwnershipFirst(repo) ==
  IF hasBusinessUnitScopeViolations_AnyRootCount(repo) # None
  THEN hasBusinessUnitScopeViolations_AnyRootCount(repo)
  ELSE IF countLiveObjectsByType(repo, "Enterprise") # 1
    THEN Some(<<"Business Unit scope requires exactly one Enterprise root.">>)
  ELSE None

hasBusinessUnitScopeViolations(repo) ==
  LET enterpriseCount == countLiveObjectsByType(repo, "Enterprise")
      Offends(r) ==
        /\ r.type = "OWNS"
        /\ r.fromId \in DOMAIN repo.objects
        /\ r.toId \in DOMAIN repo.objects
        /\ ~IsSoftDeleted(repo.objects[r.fromId].attributes)
        /\ ~IsSoftDeleted(repo.objects[r.toId].attributes)
        /\ repo.objects[r.fromId].type = "Enterprise"
        /\ repo.objects[r.toId].type = "Enterprise"
  IN
  IF enterpriseCount < 1 THEN Some(<<"Business Unit scope requires exactly one Enterprise root.">>)
  ELSE IF enterpriseCount > 1
    THEN Some(<<"Business Unit scope requires exactly one Enterprise root.">>)
  ELSE IF FirstIndex(repo.relationships, Offends) # 0
    THEN Some(<<"Enterprise-to-Enterprise ownership is disabled in Business Unit scope.">>)
  ELSE None

\* String.prototype.toLowerCase on the chunks that occur
LowerCaseOf(chunk) ==
  CASE chunk = "Sales" -> "sales"
    [] chunk = "SALES" -> "sales"
    [] chunk = "HR" -> "hr"
    [] OTHER -> chunk

toLowerCase(s) == [i \in 1..Len(s) |-> LowerCaseOf(s[i])]

\* normalizeDomainId of an optional string: the normalized id, or null
normalizeDomainId(value) ==
  LET raw == IF value = None THEN <<>> ELSE Trim(TheValue(value)) IN
  IF raw = <<>> THEN None ELSE Some(toLowerCase(raw))

\* getObjectDomainId
getObjectDomainId(obj) ==
  normalizeDomainId(IF "domainId" \in DOMAIN obj.attributes
                    THEN Some(obj.attributes["domainId"]) ELSE None)

hasDomainScopeRelationshipViolations(repo, currentDomainId) ==
  LET current == normalizeDomainId(currentDomainId)
      DomainOf(obj) == IF getObjectDomainId(obj) # None THEN getObjectDomainId(obj) ELSE current
      Offends(r) ==
        /\ r.fromId \in DOMAIN repo.objects
        /\ r.toId \in DOMAIN repo.objects
        /\ ~IsSoftDeleted(repo.objects[r.fromId].attributes)
        /\ ~IsSoftDeleted(repo.objects[r.toId].attributes)
        /\ DomainOf(repo.objects[r.fromId]) # None
        /\ DomainOf(repo.objects[r.toId]) # None
        /\ DomainOf(repo.objects[r.fromId]) # DomainOf(repo.objects[r.toId])
  IN
  IF FirstIndex(repo.relationships, Offends) # 0
  THEN Some(<<"Cross-domain relationships are blocked in Domain scope.">>)
  ELSE None

\* a gate that lets every repository through
hasProgrammeScopeViolations_Never(repo) == None

hasProgrammeScopeViolations(repo) ==
  IF countLiveObjectsByType(repo, "Programme") > 0 THEN None
  ELSE IF \E id \in DOMAIN repo.objects :
            /\ ~IsSoftDeleted(repo.objects[id].attributes)
            /\ repo.objects[id].type # "Programme"
    THEN Some(<<"Programme scope requires at least one Programme before creating other elements.">>)
  ELSE None

\* a gate that looks at the relationship types only
hasReferenceFrameworkViolations_TypesOnly(repo, referenceFramework) ==
  LET Blocked(r) ==
        ~isRelationshipTypeAllowedForReferenceFramework(referenceFramework, Some(<<r.type>>))
      i == FirstIndex(repo.relationships, Blocked)
  IN
  IF referenceFramework # Some("ArchiMate") \/ i = 0 THEN None
  ELSE Some(<<"ArchiMate reference framework allows standard ArchiMate relationship set only (blocked)",
              repo.relationships[i].type>>)

hasReferenceFrameworkViolations(repo, referenceFramework) ==
  LET Blocked(r) ==
        ~isRelationshipTypeAllowedForReferenceFramework(referenceFramework, Some(<<r.type>>))
      Dangling(r) ==
        \/ r.type \notin DOMAIN RELATIONSHIP_TYPE_DEFINITIONS
        \/ r.fromId \notin DOMAIN repo.objects
        \/ r.toId \notin DOMAIN repo.objects
      Offends(r) ==
        \/ Blocked(r)
        \/ Dangling(r)
        \/ ~EndpointsAllowed(RELATIONSHIP_TYPE_DEFINITIONS[r.type],
                             repo.objects[r.fromId].type, repo.objects[r.toId].type)
      i == FirstIndex(repo.relationships, Offends)
      r == repo.relationships[i]
  IN
  IF referenceFramework = None THEN None
  ELSE IF referenceFramework # Some("ArchiMate") THEN None
  ELSE IF i = 0 THEN None
  ELSE IF Blocked(r) THEN
    Some(<<"ArchiMate reference framework allows standard ArchiMate relationship set only (blocked)",
           r.type>>)
  ELSE IF Dangling(r) THEN
    Some(<<"ArchiMate reference framework blocked invalid relationship", r.type, r.fromId, r.toId>>)
  ELSE
    Some(<<"ArchiMate reference framework blocked invalid endpoints", r.type,
           repo.objects[r.fromId].type, repo.objects[r.toId].type>>)

\* a read-only test that compares presence and type, and not the attributes
hasReadOnlyObjectChanges_IgnoresAttributes(prev, next, architectureScope) ==
  IF architectureScope \notin { Some("Business Unit"), Some("Domain"), Some("Programme") }
  THEN FALSE
  ELSE IF prev = None \/ next = None THEN FALSE
  ELSE
    LET prevById == TheValue(prev).objects
        nextById == TheValue(next).objects
        ids == (DOMAIN prevById) \cup (DOMAIN nextById)
        TypeOf(map, id) == IF id \in DOMAIN map THEN Some(map[id].type) ELSE None
    IN
    \E id \in ids :
      /\ \/ ~isAnyObjectTypeWritableForScope(architectureScope, TypeOf(prevById, id))
         \/ ~isAnyObjectTypeWritableForScope(architectureScope, TypeOf(nextById, id))
      /\ \/ id \notin DOMAIN prevById
         \/ id \notin DOMAIN nextById
         \/ prevById[id].type # nextById[id].type

\* hasReadOnlyObjectChanges; prev and next are optional repositories
hasReadOnlyObjectChanges(prev, next, architectureScope) ==
  IF architectureScope \notin { Some("Business Unit"), Some("Domain"), Some("Programme") }
  THEN FALSE
  ELSE IF prev = None \/ next = None THEN FALSE
  ELSE
    LET prevById == TheValue(prev).objects
        nextById == TheValue(next).objects
        ids == (DOMAIN prevById) \cup (DOMAIN nextById)
        TypeOf(map, id) == IF id \in DOMAIN map THEN Some(map[id].type) ELSE None
    IN
    \E id \in ids :
      /\ \/ ~isAnyObjectTypeWritableForScope(architectureScope, TypeOf(prevById, id))
         \/ ~isAnyObjectTypeWritableForScope(architectureScope, TypeOf(nextById, id))
      /\ \/ id \notin DOMAIN prevById
         \/ id \notin DOMAIN nextById
         \/ prevById[id].type # nextById[id].type
         \/ stableStringify(prevById[id].attributes) # stableStringify(nextById[id].attributes)

----------------------------------------------------------------------------
(* EaRepositoryContext: metadata, snapshots and governance debt            *)

ArchitectureScopes == { "Enterprise", "Business Unit", "Domain", "Programme" }
ReferenceFrameworks == { "ArchiMate", "TOGAF", "Custom" }
GovernanceModes == { "Strict", "Advisory" }

\* validateRepositoryMetadata: the metadata when it is well formed, or null
validateRepositoryMetadata(value) ==
  IF /\ value # None
     /\ Trim(TheValue(value).repositoryName) # <<>>
     /\ TheValue(value).architectureScope \in ArchitectureScopes
     /\ TheValue(value).referenceFramework \in ReferenceFrameworks
     /\ TheValue(value).governanceMode \in GovernanceModes
  THEN value
  ELSE None

\* metadata?.architectureScope ?? null, and the like
ScopeOf(meta) == IF meta = None THEN None ELSE Some(TheValue(meta).architectureScope)
FrameworkOf(meta) == IF meta = None THEN None ELSE Some(TheValue(meta).referenceFramework)
RepositoryNameOf(meta) == IF meta = None THEN None ELSE Some(TheValue(meta).repositoryName)

\* a serialization that lists the objects last to first
serializeRepository_Reversed(repo, meta, t) ==
  [version |-> 1,
   metadata |-> meta,
   objects |-> [i \in 1..Len(repo.order) |->
                  [id |-> repo.objects[repo.order[Len(repo.order) + 1 - i]].id,
                   type |-> repo.objects[repo.order[Len(repo.order) + 1 - i]].type,
                   attributes |-> Spread(EmptyAttributes,
                                         repo.objects[repo.order[Len(repo.order) + 1 - i]].attributes)]],
   relationships |-> [i \in 1..Len(repo.relationships) |->
                  [fromId |-> repo.relationships[i].fromId,
                   toId |-> repo.relationships[i].toId,
                   type |-> repo.relationships[i].type,
                   attributes |-> Spread(EmptyAttributes,
                                         repo.relationships[i].attributes)]],
   updatedAt |-> t]

\* JSON.stringify(serializeRepository(repo, metadata)) at time t.  JSON text
\* and the value it encodes determine each other for the values that occur
\* (strings, booleans, numbers, records and lists of them), so the encoded
\* value stands for the text.
serializeRepository(repo, meta, t) ==
  [version |-> 1,
   metadata |-> meta,
   objects |-> [i \in 1..Len(repo.order) |->
                  [id |-> repo.objects[repo.order[i]].id,
                   type |-> repo.objects[repo.order[i]].type,
                   attributes |-> Spread(EmptyAttributes,
                                         repo.objects[repo.order[i]].attributes)]],
   relationships |-> [i \in 1..Len(repo.relationships) |->
                  [fromId |-> repo.relationships[i].fromId,
                   toId |-> repo.relationships[i].toId,
                   type |-> repo.relationships[i].type,
                   attributes |-> Spread(EmptyAttributes,
                                         repo.relationships[i].attributes)]],
   updatedAt |-> t]

\* the snapshot's objects and relationships as constructor arguments
SnapshotObjects(value) ==
  [i \in 1..Len(value.objects) |->
     [id |-> Some(value.objects[i].id), type |-> value.objects[i].type,
      attributes |-> Some(value.objects[i].attributes)]]

SnapshotRelationships(value) ==
  [i \in 1..Len(value.relationships) |->
     [fromId |-> Some(value.relationships[i].fromId),
      toId |-> Some(value.relationships[i].toId),
      type |-> value.relationships[i].type,
      attributes |-> Some(value.relationships[i].attributes)]]

\* the first relationship of the snapshot that ArchiMate does not support, or 0
FirstUnsupported(value) ==
  LET Unsupported(r) ==
        ~isRelationshipTypeAllowedForReferenceFramework(Some("ArchiMate"), Some(<<r.type>>))
  IN FirstIndex(value.relationships, Unsupported)

\* a deserialization without the ArchiMate check
Deserialize_AnyRelationshipType(value, metaRes, unsupported) ==
  IF metaRes = None THEN Fail(<<"Invalid repository metadata.">>)
  ELSE [ok |-> TRUE,
        repo |-> RepoNew(SnapshotObjects(value), SnapshotRelationships(value)),
        metadata |-> TheValue(metaRes)]

\* tryDeserializeRepository once the metadata has been validated
Deserialize(value, metaRes, unsupported) ==
  IF metaRes = None THEN Fail(<<"Invalid repository metadata.">>)
  ELSE IF TheValue(metaRes).referenceFramework = "ArchiMate" /\ unsupported # 0
    THEN Fail(<<"Invalid ArchiMate repository snapshot: unsupported relationship type",
                value.relationships[unsupported].type>>)
  ELSE [ok |-> TRUE,
        repo |-> RepoNew(SnapshotObjects(value), SnapshotRelationships(value)),
        metadata |-> TheValue(metaRes)]

\* tryDeserializeRepository: [ok, repo, metadata] or [ok, error]
tryDeserializeRepository(value) ==
  Deserialize(value, validateRepositoryMetadata(Some(value.metadata)),
              FirstUnsupported(value))

\* the live objects of repo
LiveIds(repo) ==
  { id \in DOMAIN repo.objects : ~IsSoftDeleted(repo.objects[id].attributes) }

\* debt.summary from its counts
DebtSummary(mandatory, invalidInserts, lifecycleMissing) ==
  [mandatoryFindingCount |-> mandatory,
   invalidRelationshipInsertCount |-> invalidInserts,
   relationshipErrorCount |-> 0,
   relationshipWarningCount |-> 0,
   lifecycleTagMissingCount |-> lifecycleMissing,
   total |-> mandatory + invalidInserts + lifecycleMissing]

\* buildGovernanceDebt(...).summary
buildGovernanceDebt(repo, lifecycleCoverage) ==
  DebtSummary(
    Cardinality({ id \in LiveIds(repo) :
                    \/ "name" \notin DOMAIN repo.objects[id].attributes
                    \/ Trim(repo.objects[id].attributes["name"]) = <<>> }),
    Cardinality({ i \in 1..Len(repo.relationships) :
                    \/ repo.relationships[i].fromId \notin DOMAIN repo.objects
                    \/ repo.relationships[i].toId \notin DOMAIN repo.objects }),
    IF lifecycleCoverage = "Both"
    THEN Cardinality({ id \in LiveIds(repo) :
                         "lifecycleState" \notin DOMAIN repo.objects[id].attributes })
    ELSE 0)

\* the key composed of the five counts
DebtKey(summary) ==
  << summary.mandatoryFindingCount, summary.invalidRelationshipInsertCount,
     summary.relationshipErrorCount, summary.relationshipWarningCount,
     summary.lifecycleTagMissingCount >>

----------------------------------------------------------------------------
(* EaRepositoryContext: the effects that follow a state change             *)

Warning(text) == [level |-> "warning", text |-> text]
Success(text) == [level |-> "success", text |-> text]

\* the refs, the two flags, the storage and the messages, as one record
Refs ==
  [undoStack |-> undoStack, redoStack |-> redoStack, lastSerialized |-> lastSerialized,
   suppressHistory |-> suppressHistory, lastSaveBlockedKey |-> lastSaveBlockedKey,
   lastAdvisoryWarnKey |-> lastAdvisoryWarnKey, canUndo |-> canUndo, canRedo |-> canRedo,
   storage |-> storage, emitted |-> <<>>]

\* a push that never shifts an entry out
PushBounded_Unbounded(stack, x) == Append(stack, x)

\* stack.push(x) with the oldest entry shifted out above HISTORY_LIMIT
PushBounded(stack, x) ==
  IF Len(stack) + 1 > HISTORY_LIMIT THEN Tail(Append(stack, x)) ELSE Append(stack, x)

\* an unshift that pops the last entry above two entries
UnshiftBounded_KeepsTwo(stack, x) ==
  IF Len(stack) + 1 > 2 THEN SubSeq(<<x>> \o stack, 1, Len(stack))
  ELSE <<x>> \o stack

\* stack.unshift(x) with the last entry popped above HISTORY_LIMIT
UnshiftBounded(stack, x) ==
  IF Len(stack) + 1 > HISTORY_LIMIT THEN SubSeq(<<x>> \o stack, 1, Len(stack))
  ELSE <<x>> \o stack

\* message.warning(violation) when there is one
WarnIf(c, violation) ==
  IF violation = None THEN c
  ELSE [c EXCEPT !.emitted = Append(@, Warning(TheValue(violation)))]

\* the effect on [eaRepository, metadata?.architectureScope]
ValidateEffect(c, repo, meta) ==
  IF repo = None \/ ScopeOf(meta) # Some("Business Unit") THEN c
  ELSE WarnIf(c, hasBusinessUnitScopeViolations(TheValue(repo)))

\* a history that keeps the redo stack when a change is recorded
TrackHistory_KeepsRedo(c, nextSerialized) ==
  IF /\ ~c.suppressHistory
     /\ c.lastSerialized # None
     /\ c.lastSerialized # Some(nextSerialized)
  THEN [c EXCEPT !.undoStack = PushBounded(@, TheValue(c.lastSerialized)),
                 !.canUndo = TRUE]
  ELSE c

\* the history part of the effect on [eaRepository, loading, metadata]
TrackHistory(c, nextSerialized) ==
  IF /\ ~c.suppressHistory
     /\ c.lastSerialized # None
     /\ c.lastSerialized # Some(nextSerialized)
  THEN [c EXCEPT !.undoStack = PushBounded(@, TheValue(c.lastSerialized)),
                 !.redoStack = <<>>,
                 !.canUndo = TRUE,
                 !.canRedo = FALSE]
  ELSE c

\* a Strict mode that reports success at every compliant evaluation
GovernStrict_SuccessEachTime(c, summary) ==
  IF \/ summary.mandatoryFindingCount > 0
     \/ summary.relationshipErrorCount > 0
     \/ summary.invalidRelationshipInsertCount > 0
     \/ summary.lifecycleTagMissingCount > 0
  THEN
    [save |-> FALSE,
     c |-> IF c.lastSaveBlockedKey # Some(DebtKey(summary))
           THEN [c EXCEPT !.lastSaveBlockedKey = Some(DebtKey(summary))] ELSE c]
  ELSE
    [save |-> TRUE,
     c |-> [c EXCEPT !.lastSaveBlockedKey = None,
                     !.emitted = Append(@,
                        Success(<<"Governance compliant: saving re-enabled.">>))]]

\* Strict mode: the refs afterwards, and whether saving goes on
GovernStrict(c, summary) ==
  IF \/ summary.mandatoryFindingCount > 0
     \/ summary.relationshipErrorCount > 0
     \/ summary.invalidRelationshipInsertCount > 0
     \/ summary.lifecycleTagMissingCount > 0
  THEN
    [save |-> FALSE,
     c |-> IF c.lastSaveBlockedKey # Some(DebtKey(summary))
           THEN [c EXCEPT !.lastSaveBlockedKey = Some(DebtKey(summary))] ELSE c]
  ELSE
    [save |-> TRUE,
     c |-> IF c.lastSaveBlockedKey # None
           THEN [c EXCEPT !.lastSaveBlockedKey = None,
                          !.emitted = Append(@,
                             Success(<<"Governance compliant: saving re-enabled.">>))]
           ELSE c]

\* an Advisory mode that forgets nothing when the debt is gone
GovernAdvisory_KeepsKey(c, summary) ==
  [save |-> TRUE,
   c |-> IF summary.total > 0 /\ c.lastAdvisoryWarnKey # Some(DebtKey(summary))
         THEN [c EXCEPT !.lastAdvisoryWarnKey = Some(DebtKey(summary)),
                        !.emitted = Append(@,
                           Warning(<<"Saved with governance warnings (Advisory)",
                                     summary.total>>))]
         ELSE c]

\* Advisory mode: the refs afterwards; saving always goes on
GovernAdvisory(c, summary) ==
  [save |-> TRUE,
   c |-> IF summary.total > 0 THEN
           IF c.lastAdvisoryWarnKey # Some(DebtKey(summary))
           THEN [c EXCEPT !.lastAdvisoryWarnKey = Some(DebtKey(summary)),
                          !.emitted = Append(@,
                             Warning(<<"Saved with governance warnings (Advisory)",
                                       summary.total>>))]
           ELSE c
         ELSE [c EXCEPT !.lastAdvisoryWarnKey = None]]

\* the governance part of the effect
Govern(c, governanceMode, summary) ==
  IF governanceMode = "Strict" THEN GovernStrict(c, summary)
  ELSE IF governanceMode = "Advisory" THEN GovernAdvisory(c, summary)
  ELSE [save |-> TRUE, c |-> c]

\* a save that goes on whatever governance returned
Save_Always(governed, nextSerialized) ==
  [governed.c EXCEPT !.storage = Some(nextSerialized)]

\* localStorage.setItem unless governance returned early
Save(governed, nextSerialized) ==
  IF governed.save THEN [governed.c EXCEPT !.storage = Some(nextSerialized)]
  ELSE governed.c

\* the effect from nextSerialized on
PersistSerialized(c, repo, meta, nextSerialized) ==
  Save(Govern([TrackHistory(c, nextSerialized) EXCEPT
                 !.suppressHistory = FALSE,
                 !.lastSerialized = Some(nextSerialized)],
              meta.governanceMode,
              buildGovernanceDebt(repo, meta.lifecycleCoverage)),
       nextSerialized)

\* the effect on [eaRepository, loading, metadata], run at time t
PersistEffect(c, repo, meta, t) ==
  IF repo = None \/ meta = None THEN
    [c EXCEPT !.storage = None, !.lastSerialized = None]
  ELSE
    PersistSerialized(c, TheValue(repo), TheValue(meta),
                      serializeRepository(TheValue(repo), TheValue(meta), t))

\* the effects React runs after a handler, given what the handler changed
RunEffects(c, repo, meta, repoChanged, metaChanged) ==
  IF repoChanged \/ metaChanged THEN
    PersistEffect(IF repoChanged \/ ScopeOf(meta) # ScopeOf(metadata)
                  THEN ValidateEffect(c, repo, meta) ELSE c,
                  repo, meta, now)
  ELSE c

\* the metadata closed over by setEaRepository: renewed when a dependency
\* (metadata?.architectureScope, metadata?.referenceFramework) changes
CaptureMetadata(meta) ==
  IF ScopeOf(meta) # ScopeOf(metadata) \/ FrameworkOf(meta) # FrameworkOf(metadata)
  THEN meta ELSE capturedMetadata

\* the state of the provider after the handler and the effects
Landed(e, repo, meta, ret) ==
  /\ eaRepository' = repo
  /\ metadata' = meta
  /\ capturedMetadata' = CaptureMetadata(meta)
  /\ undoStack' = e.undoStack
  /\ redoStack' = e.redoStack
  /\ lastSerialized' = e.lastSerialized
  /\ suppressHistory' = e.suppressHistory
  /\ lastSaveBlockedKey' = e.lastSaveBlockedKey
  /\ lastAdvisoryWarnKey' = e.lastAdvisoryWarnKey
  /\ canUndo' = e.canUndo
  /\ canRedo' = e.canRedo
  /\ storage' = e.storage
  /\ emitted' = e.emitted
  /\ returned' = ret

\* the state after the handler and the effects
Commit(e, repo, meta, ret) ==
  /\ Landed(e, repo, meta, ret)
  /\ UNCHANGED <<backendVars, repoVars, pureVars, now>>

\* the state after a handler that leaves the refs c, the repository repo and
\* the metadata meta, and after the effects this triggers
Settle(c, repo, meta, repoChanged, metaChanged, ret) ==
  Commit(RunEffects(c, repo, meta, repoChanged, metaChanged), repo, meta, ret)

----------------------------------------------------------------------------
(* EaRepositoryContext: the handlers                                       *)

ReadOnlyWarning(scope) ==
  IF scope = Some("Domain") THEN
    Warning(<<"Read-only in Domain scope: only Capabilities + Business Services + Applications + Application Services are editable.">>)
  ELSE IF scope = Some("Programme") THEN
    Warning(<<"Read-only in Programme scope: only Programmes, Projects, impacted Capabilities, and impacted Applications are editable.">>)
  ELSE
    Warning(<<"Read-only in Business Unit scope: only Business + Application + Technology layers are editable.">>)

\* a ?? b on optional values
OrElse(a, b) == IF a # None THEN a ELSE b

\* a gate that applies the rule of the reference framework and no scope rule
GateViolation_FrameworkOnly(resolved, meta) ==
  hasReferenceFrameworkViolations(resolved, FrameworkOf(meta))

\* the first violation the gate finds in a proposed repository, or null
GateViolation(resolved, meta) ==
  OrElse(hasReferenceFrameworkViolations(resolved, FrameworkOf(meta)),
  OrElse(IF ScopeOf(meta) = Some("Business Unit")
         THEN hasBusinessUnitScopeViolations(resolved) ELSE None,
  OrElse(IF ScopeOf(meta) = Some("Domain")
         THEN hasDomainScopeRelationshipViolations(resolved, RepositoryNameOf(meta))
         ELSE None,
         IF ScopeOf(meta) = Some("Programme")
         THEN hasProgrammeScopeViolations(resolved) ELSE None)))

\* a gate that warns and then lets the proposal through
GateOutcome_KeepsProposal(prev, resolved, same, scope, violation) ==
  IF violation # None
  THEN [value |-> resolved, same |-> same, emitted |-> <<Warning(TheValue(violation))>>]
  ELSE IF ~hasReadOnlyObjectChanges(prev, resolved, scope)
    THEN [value |-> resolved, same |-> same, emitted |-> <<>>]
  ELSE [value |-> resolved, same |-> same, emitted |-> <<ReadOnlyWarning(scope)>>]

\* what the updater of setEaRepository returns for a proposal that is not
\* null: the value, whether it is prev itself, and the messages
GateOutcome(prev, resolved, same, scope, violation) ==
  IF violation # None
  THEN [value |-> prev, same |-> TRUE, emitted |-> <<Warning(TheValue(violation))>>]
  ELSE IF ~hasReadOnlyObjectChanges(prev, resolved, scope)
    THEN [value |-> resolved, same |-> same, emitted |-> <<>>]
  ELSE [value |-> prev, same |-> TRUE, emitted |-> <<ReadOnlyWarning(scope)>>]

\* the updater given to setEaRepositoryState by setEaRepository; meta is the
\* metadata the callback closed over
setEaRepository(prev, resolved, same, meta) ==
  IF resolved = None THEN [value |-> resolved, same |-> same, emitted |-> <<>>]
  ELSE GateOutcome(prev, resolved, same, ScopeOf(meta),
                   GateViolation(TheValue(resolved), meta))

\* next.objects.delete(id): the fields of an EaRepository are public
RepoObjectsDelete(repo, id) ==
  LET Other(key) == key # id IN
  [result |-> Ok,
   repo |-> [order |-> SelectSeq(repo.order, Other),
             objects |-> [key \in (DOMAIN repo.objects) \ {id} |-> repo.objects[key]],
             relationships |-> repo.relationships]]

\* next.objects.set(id, { ...next.objects.get(id), type }) for an id that is
\* present
RepoObjectsSetType(repo, id, type) ==
  [result |-> Ok,
   repo |-> [order |-> repo.order,
             objects |-> [key \in DOMAIN repo.objects |->
                            IF key = id
                            THEN [id |-> repo.objects[key].id, type |-> type,
                                  attributes |-> repo.objects[key].attributes]
                            ELSE repo.objects[key]],
             relationships |-> repo.relationships]]

\* the operation a caller's updater applies to the clone
ApplyUpdater(updater, next) ==
  CASE updater.kind = "addObject" -> RepoAddObject(next, updater.object)
    [] updater.kind = "addRelationship" -> RepoAddRelationship(next, updater.relationship)
    [] updater.kind = "updateObjectAttributes" ->
         RepoUpdateObjectAttributes(next, updater.id, updater.patch, updater.mode)
    [] updater.kind = "objectsDelete" -> RepoObjectsDelete(next, updater.id)
    [] updater.kind = "objectsSetType" ->
         IF updater.id \in DOMAIN next.objects
         THEN RepoObjectsSetType(next, updater.id, updater.type)
         ELSE [result |-> Fail(<<"Unknown object id", updater.id>>), repo |-> next]

\* prev when the operation failed, the changed clone otherwise
Resolved(prev, res) ==
  IF ~res.result.ok THEN [value |-> prev, same |-> TRUE]
  ELSE [value |-> Some(res.repo), same |-> FALSE]

\* what a caller's updater returns for prev: null, or prev when there is no
\* repository or the operation on the clone fails, or the changed clone
Resolve(updater, prev) ==
  IF updater.kind = "null" THEN [value |-> None, same |-> prev = None]
  ELSE IF prev = None THEN [value |-> prev, same |-> TRUE]
  ELSE Resolved(prev, ApplyUpdater(updater, RepoClone(TheValue(prev))))

\* the state change and the effects after the updater returned r
SetState(r) ==
  Settle([Refs EXCEPT !.emitted = r.emitted], r.value, metadata, ~r.same, FALSE,
         [name |-> "setEaRepository", value |-> r.value])

SetResolved(resolved) ==
  SetState(setEaRepository(eaRepository, resolved.value, resolved.same, capturedMetadata))

SetEaRepository(updater) == SetResolved(Resolve(updater, eaRepository))

\* EaRepository after createNewRepository's constructor and root placeholder
NewRepositoryFor(input) ==
  IF input.architectureScope = "Business Unit" THEN
    RepoAddObject(EmptyRepository,
      [id |-> Some(<<"ent-root">>), type |-> "Enterprise",
       attributes |-> Some([name |-> IF Trim(input.organizationName) # <<>>
                                     THEN Trim(input.organizationName)
                                     ELSE <<"Business Unit">>])]).repo
  ELSE EmptyRepository

WithCreatedAt(input, t) ==
  [repositoryName |-> input.repositoryName, organizationName |-> input.organizationName,
   architectureScope |-> input.architectureScope,
   referenceFramework |-> input.referenceFramework,
   governanceMode |-> input.governanceMode,
   lifecycleCoverage |-> input.lifecycleCoverage, createdAt |-> t]

\* a new history root that empties the stacks and leaves the two flags
NewHistoryRoot_KeepsFlags ==
  [Refs EXCEPT !.undoStack = <<>>, !.redoStack = <<>>]

\* undoStackRef.current = []; redoStackRef.current = []; setCanUndo(false);
\* setCanRedo(false)
NewHistoryRoot ==
  [Refs EXCEPT !.undoStack = <<>>, !.redoStack = <<>>, !.canUndo = FALSE, !.canRedo = FALSE]

Created(input, metaRes) ==
  IF metaRes = None THEN
    Settle(Refs, eaRepository, metadata, FALSE, FALSE,
           [name |-> "createNewRepository",
            value |-> Fail(<<"Invalid repository metadata.">>)])
  ELSE
    Settle(NewHistoryRoot, Some(NewRepositoryFor(input)), metaRes, TRUE, TRUE,
           [name |-> "createNewRepository", value |-> Ok])

CreateNewRepository(input) ==
  Created(input, validateRepositoryMetadata(Some(WithCreatedAt(input, now))))

Loaded(res) ==
  IF ~res.ok THEN
    Settle(Refs, eaRepository, metadata, FALSE, FALSE,
           [name |-> "loadRepositoryFromJsonText", value |-> res])
  ELSE
    Settle(NewHistoryRoot, Some(res.repo), Some(res.metadata), TRUE, TRUE,
           [name |-> "loadRepositoryFromJsonText", value |-> Ok])

\* jsonText is text that does not parse, or the text of a snapshot value
LoadRepositoryFromJsonText(jsonText) ==
  IF ~jsonText.parses THEN
    Settle(Refs, eaRepository, metadata, FALSE, FALSE,
           [name |-> "loadRepositoryFromJsonText", value |-> Fail(<<"Invalid JSON.">>)])
  ELSE Loaded(tryDeserializeRepository(jsonText.value))

ClearRepository ==
  Settle(NewHistoryRoot, None, None, eaRepository # None, metadata # None,
         [name |-> "clearRepository", value |-> Ok])

\* what a handler leaves behind: the refs after the effects it triggers, the
\* repository, the metadata and the returned value
Outcome(c, repo, meta, repoChanged, metaChanged, ret) ==
  [refs |-> RunEffects(c, repo, meta, repoChanged, metaChanged),
   repo |-> repo, meta |-> meta, ret |-> ret]

\* the state after a handler of outcome o
Becomes(o) == Commit(o.refs, o.repo, o.meta, o.ret)

\* an applySerialized that leaves suppressHistoryRef alone
Applied_TracksHistory(name, c, raw, res) ==
  IF ~res.ok THEN
    Outcome(c, eaRepository, metadata, FALSE, FALSE, [name |-> name, value |-> FALSE])
  ELSE
    Outcome([c EXCEPT !.lastSerialized = Some(raw),
                      !.canUndo = Len(c.undoStack) > 0,
                      !.canRedo = Len(c.redoStack) > 0],
            Some(res.repo), Some(res.metadata), TRUE, TRUE,
            [name |-> name, value |-> TRUE])

\* applySerialized(raw) and the rest of undo or redo, the stacks being c's
Applied(name, c, raw, res) ==
  IF ~res.ok THEN
    Outcome(c, eaRepository, metadata, FALSE, FALSE, [name |-> name, value |-> FALSE])
  ELSE
    Outcome([c EXCEPT !.suppressHistory = TRUE,
                      !.lastSerialized = Some(raw),
                      !.canUndo = Len(c.undoStack) > 0,
                      !.canRedo = Len(c.redoStack) > 0],
            Some(res.repo), Some(res.metadata), TRUE, TRUE,
            [name |-> name, value |-> TRUE])

\* undo() in the current state
UndoOutcome ==
  IF undoStack = <<>> THEN
    Outcome([Refs EXCEPT !.canUndo = FALSE], eaRepository, metadata, FALSE, FALSE,
            [name |-> "undo", value |-> FALSE])
  ELSE
    Applied("undo",
            [Refs EXCEPT !.undoStack = SubSeq(undoStack, 1, Len(undoStack) - 1),
                         !.redoStack = IF lastSerialized # None
                                       THEN UnshiftBounded(redoStack, TheValue(lastSerialized))
                                       ELSE redoStack],
            undoStack[Len(undoStack)],
            tryDeserializeRepository(undoStack[Len(undoStack)]))

Undo == Becomes(UndoOutcome)

\* redo() in the current state
RedoOutcome ==
  IF redoStack = <<>> THEN
    Outcome([Refs EXCEPT !.canRedo = FALSE], eaRepository, metadata, FALSE, FALSE,
            [name |-> "redo", value |-> FALSE])
  ELSE
    Applied("redo",
            [Refs EXCEPT !.undoStack = IF lastSerialized # None
                                       THEN PushBounded(undoStack, TheValue(lastSerialized))
                                       ELSE undoStack,
                         !.redoStack = Tail(redoStack)],
            Head(redoStack),
            tryDeserializeRepository(Head(redoStack)))

Redo == Becomes(RedoOutcome)

\* new Date() moves on
Tick ==
  /\ now' = now + 1
  /\ UNCHANGED <<backendVars, repoVars, pureVars, eaRepository, metadata, capturedMetadata,
                 undoStack, redoStack, lastSerialized, suppressHistory,
                 lastSaveBlockedKey, lastAdvisoryWarnKey, canUndo, canRedo, storage,
                 emitted, returned>>

----------------------------------------------------------------------------
(* Specification SpecContext: the provider, mounted on an empty storage,   *)
(* driven by its handlers                                                  *)

MaxHistory == 1
MaxClock == 1
MaxContextRels == 1

MetadataInput(name, scope, framework, mode) ==
  [repositoryName |-> name, organizationName |-> <<"Acme">>, architectureScope |-> scope,
   referenceFramework |-> framework, governanceMode |-> mode, lifecycleCoverage |-> "Target"]

MetadataInputs ==
  { MetadataInput(<<"Sales">>, "Business Unit", "Custom", "Advisory"),
    MetadataInput(<<"Sales">>, "Programme", "Custom", "Strict"),
    MetadataInput(<<SP>>, "Enterprise", "Custom", "Advisory") }

ContextObject(id, type, attributes) ==
  [id |-> Some(<<id>>), type |-> type, attributes |-> attributes]

ContextRelationship(fromId, toId, type) ==
  [fromId |-> Some(<<fromId>>), toId |-> Some(<<toId>>), type |-> type, attributes |-> None]

UpdaterInputs ==
  { [kind |-> "null"] }
  \cup { [kind |-> "addObject", object |-> o] :
           o \in { ContextObject("a", "Application", Some([name |-> <<"x">>])),
                   ContextObject("p", "Programme", None) } }
  \cup { [kind |-> "addRelationship", relationship |-> r] :
           r \in { ContextRelationship("a", "b", "DEPENDS_ON"),
                   ContextRelationship("p", "a", "DELIVERS") } }
  \cup { [kind |-> "updateObjectAttributes", id |-> Some(<<id>>),
          patch |-> Some([_deleted |-> TRUE]), mode |-> Some("merge")] :
           id \in { "ent-root" } }

\* the text of a snapshot saved at time t: two Applications of different
\* domains and a Programme without a name
SnapshotInput(scope, framework, mode, t) ==
  [version |-> 1,
   metadata |-> WithCreatedAt(MetadataInput(<<"Sales">>, scope, framework, mode), t),
   objects |->
     << [id |-> <<"a">>, type |-> "Application", attributes |-> [name |-> <<"x">>]],
        [id |-> <<"b">>, type |-> "Application",
         attributes |-> [name |-> <<"x">>, domainId |-> <<"HR">>]],
        [id |-> <<"p">>, type |-> "Programme", attributes |-> EmptyAttributes] >>,
   relationships |-> <<>>,
   updatedAt |-> t]

\* well-formed snapshots (the Business Unit one has no Enterprise root), one
\* with a scope that does not exist, and text that is not JSON
JsonTextInputs ==
  { [parses |-> TRUE, value |-> SnapshotInput("Domain", "TOGAF", "Advisory", 0)],
    [parses |-> TRUE, value |-> SnapshotInput("Enterprise", "ArchiMate", "Strict", 0)],
    [parses |-> TRUE, value |-> SnapshotInput("Business Unit", "Custom", "Advisory", 0)],
    [parses |-> TRUE, value |-> SnapshotInput("Galaxy", "Custom", "Advisory", 0)],
    [parses |-> FALSE, value |-> SnapshotInput("Galaxy", "Custom", "Advisory", 0)] }

InitContext == RepositoryIdle /\ PureIdle /\ ContextIdle /\ BackendIdle

\* the two stacks stay within the bound
HistoryFits == Len(undoStack) + Len(redoStack) <= MaxHistory

\* the relationship list of the current repository has room under the bound
RelationshipsFit(updater) ==
  IF updater.kind # "addRelationship" \/ eaRepository = None THEN TRUE
  ELSE Len(TheValue(eaRepository).relationships) < MaxContextRels

DoSetEaRepository ==
  \E updater \in UpdaterInputs :
    RelationshipsFit(updater) /\ SetEaRepository(updater) /\ HistoryFits'

DoCreateNewRepository ==
  \E input \in MetadataInputs : CreateNewRepository(input) /\ HistoryFits'

DoLoadRepositoryFromJsonText ==
  \E jsonText \in JsonTextInputs : LoadRepositoryFromJsonText(jsonText) /\ HistoryFits'

DoClearRepository == ClearRepository

DoUndo == Undo

DoRedo == Redo

DoTick == now < MaxClock /\ Tick

NextContext ==
  \/ DoSetEaRepository
  \/ DoCreateNewRepository
  \/ DoLoadRepositoryFromJsonText
  \/ DoClearRepository
  \/ DoUndo
  \/ DoRedo
  \/ DoTick

SpecContext == InitContext /\ [][NextContext]_vars

----------------------------------------------------------------------------
(* Properties of the context, checked under SpecContext                    *)

\* the proposal is not null and breaks the reference framework, the
\* structure of the scope, or the read-only rule of the scope
Rejects(proposal) ==
  IF proposal = None THEN FALSE
  ELSE \/ GateViolation(TheValue(proposal), capturedMetadata) # None
       \/ hasReadOnlyObjectChanges(eaRepository, proposal, ScopeOf(capturedMetadata))

\* the step is the call of setEaRepository with an updater that resolves to
\* a proposal the gate rejects
RejectedStep(resolved) == Rejects(resolved.value) /\ SetResolved(resolved)

\* what stays as it was, and the one message
RolledBack ==
  /\ eaRepository' = eaRepository
  /\ undoStack' = undoStack
  /\ redoStack' = redoStack
  /\ storage' = storage
  /\ Len(emitted') = 1
  /\ emitted'[1].level = "warning"

\* C10: when setEaRepository rejects a proposed repository (a violation of
\* the reference framework or of the structure of the scope, or a read-only
\* change), the current repository, the undo stack, the redo stack and the
\* persisted snapshot stay as they were, and the call emits one message, a
\* warning.
C10_RejectionLeavesStateUnchanged ==
  [][ returned'.name = "setEaRepository" =>
        \A updater \in UpdaterInputs :
          RejectedStep(Resolve(updater, eaRepository)) => RolledBack ]_vars

\* a cross-domain relationship has just been rejected while there is a
\* repository, a persisted snapshot and an entry on the undo stack
C10_Witness ==
  /\ returned.name = "setEaRepository"
  /\ emitted = <<Warning(<<"Cross-domain relationships are blocked in Domain scope.">>)>>
  /\ eaRepository # None
  /\ returned.value = eaRepository
  /\ storage # None
  /\ undoStack # <<>>

----------------------------------------------------------------------------
(* ObjectTableTab: the Create Relationship dialog                          *)

\* OBJECT_TYPE_DEFINITIONS[t].allowedOutgoingRelationships
ALLOWED_OUTGOING_RELATIONSHIPS ==
  [ Enterprise |-> <<"OWNS", "HAS">>, Programme |-> <<"DELIVERS", "IMPACTS">>,
    Project |-> <<"IMPLEMENTS">>, Principle |-> <<>>, Requirement |-> <<>>,
    CapabilityCategory |-> <<"DECOMPOSES_TO">>,
    Capability |-> <<"DECOMPOSES_TO", "REALIZED_BY", "SUPPORTED_BY">>,
    SubCapability |-> <<>>, BusinessProcess |-> <<"REALIZES">>,
    BusinessService |-> <<>>, Department |-> <<>>,
    Application |-> <<"DEPENDS_ON", "HOSTED_ON", "PROVIDES">>,
    ApplicationService |-> <<"SUPPORTS">>, Technology |-> <<>> ]

Error(text) == [level |-> "error", text |-> text]

\* relationshipOptions of the dialog opened on obj
RelationshipOptions(obj, meta) ==
  { t \in RelationshipTypeSet :
      /\ SeqIncludes(ALLOWED_OUTGOING_RELATIONSHIPS[obj.type], t)
      /\ isValidRelationshipType(t)
      /\ isRelationshipTypeAllowedForReferenceFramework(FrameworkOf(meta), Some(<<t>>)) }

\* the ids of candidateTargets of the dialog opened on the object id
CandidateTargets(repo, id) ==
  { o \in DOMAIN repo.objects : o # id /\ ~IsSoftDeleted(repo.objects[o].attributes) }

\* the dialog on the object id offers the type and the target
DialogOffers(id, relType, toId) ==
  /\ eaRepository # None
  /\ id \in DOMAIN TheValue(eaRepository).objects
  /\ relType \in RelationshipOptions(TheValue(eaRepository).objects[id], metadata)
  /\ toId \in CandidateTargets(TheValue(eaRepository), id)

\* onOk: the domain of an end, its own or the repository's
DialogDomainOf(obj, meta) ==
  OrElse(getObjectDomainId(obj), normalizeDomainId(RepositoryNameOf(meta)))

\* onOk: the message of the check that stops the dialog, or null
DialogViolation(obj, toObj, relType, meta) ==
  IF /\ ScopeOf(meta) = Some("Domain")
     /\ DialogDomainOf(obj, meta) # None
     /\ DialogDomainOf(toObj, meta) # None
     /\ DialogDomainOf(obj, meta) # DialogDomainOf(toObj, meta)
  THEN Some(<<"Cross-domain relationships are blocked in Domain scope.">>)
  ELSE IF /\ ScopeOf(meta) = Some("Business Unit")
          /\ relType = "OWNS"
          /\ obj.type = "Enterprise"
          /\ toObj.type = "Enterprise"
    THEN Some(<<"Enterprise-to-Enterprise ownership is disabled in Business Unit scope.">>)
  ELSE None

\* the updater of onOk: prev and message.error when addRelationship fails on
\* the clone, the changed clone otherwise
DialogResolved(prev, res) ==
  IF ~res.result.ok
  THEN [value |-> prev, same |-> TRUE, emitted |-> <<Error(res.result.error)>>]
  ELSE [value |-> Some(res.repo), same |-> FALSE, emitted |-> <<>>]

\* setEaRepository(updater) and message.success: the updater runs inside the
\* call, its messages come first
DialogCommit(resolved, r) ==
  Settle([Refs EXCEPT !.emitted = resolved.emitted \o r.emitted
                                  \o <<Success(<<"Relationship created.">>)>>],
         r.value, metadata, ~r.same, FALSE,
         [name |-> "createRelationship", value |-> "created"])

DialogSet(resolved) ==
  DialogCommit(resolved,
               setEaRepository(eaRepository, resolved.value, resolved.same, capturedMetadata))

\* onOk once the type and the target are chosen
DialogOk(id, relType, toId, violation) ==
  IF violation # None THEN
    Settle([Refs EXCEPT !.emitted = <<Error(TheValue(violation))>>],
           eaRepository, metadata, FALSE, FALSE,
           [name |-> "createRelationship", value |-> "rejected"])
  ELSE
    DialogSet(DialogResolved(eaRepository,
                RepoAddRelationship(RepoClone(TheValue(eaRepository)),
                  [fromId |-> Some(id), toId |-> Some(toId), type |-> relType,
                   attributes |-> Some(EmptyAttributes)])))

CreateRelationship(id, relType, toId) ==
  DialogOk(id, relType, toId,
           DialogViolation(TheValue(eaRepository).objects[id],
                           TheValue(eaRepository).objects[toId], relType, metadata))

----------------------------------------------------------------------------
(* Specification SpecGate: repositories of every scope, created or loaded, *)
(* and the proposals callers submit through setEaRepository                *)

MaxGateHistory == 2

GateMetadataInputs ==
  { MetadataInput(<<"Sales">>, "Business Unit", "Custom", "Advisory") }

\* two Applications, the second of the domain HR, and a Programme
GateObjects ==
  << [id |-> <<"a">>, type |-> "Application", attributes |-> [name |-> <<"x">>]],
     [id |-> <<"b">>, type |-> "Application",
      attributes |-> [name |-> <<"x">>, domainId |-> <<"HR">>]],
     [id |-> <<"p">>, type |-> "Programme", attributes |-> [name |-> <<"x">>]] >>

\* two Enterprises
BusinessUnitObjects ==
  << [id |-> <<"ent-root">>, type |-> "Enterprise", attributes |-> [name |-> <<"x">>]],
     [id |-> <<"ent-root2">>, type |-> "Enterprise", attributes |-> [name |-> <<"x">>]] >>

GateSnapshot(name, scope, framework, objectItems) ==
  [version |-> 1,
   metadata |-> WithCreatedAt(MetadataInput(name, scope, framework, "Advisory"), 0),
   objects |-> objectItems,
   relationships |-> <<>>,
   updatedAt |-> 0]

GateJsonTextInputs ==
  { [parses |-> TRUE, value |-> v] :
      v \in { GateSnapshot(<<"HR">>, "Domain", "TOGAF", GateObjects),
              GateSnapshot(<<"Sales">>, "Domain", "TOGAF", GateObjects),
              GateSnapshot(<<"Sales">>, "Programme", "Custom", GateObjects),
              GateSnapshot(<<"Sales">>, "Enterprise", "ArchiMate", GateObjects),
              GateSnapshot(<<"Sales">>, "Business Unit", "Custom", BusinessUnitObjects) } }

SoftDelete(id) ==
  [kind |-> "updateObjectAttributes", id |-> Some(<<id>>),
   patch |-> Some([_deleted |-> TRUE]), mode |-> Some("merge")]

Rename(id) ==
  [kind |-> "updateObjectAttributes", id |-> Some(<<id>>),
   patch |-> Some([name |-> <<"y">>]), mode |-> Some("merge")]

OwnsSecondRoot ==
  [kind |-> "addRelationship",
   relationship |-> ContextRelationship("ent-root", "ent-root2", "OWNS")]

GateUpdaterInputs ==
  { [kind |-> "null"],
    [kind |-> "addObject",
     object |-> ContextObject("c", "Application", Some([name |-> <<"x">>]))],
    [kind |-> "addRelationship", relationship |-> ContextRelationship("a", "b", "DEPENDS_ON")],
    [kind |-> "addRelationship", relationship |-> ContextRelationship("p", "a", "DELIVERS")],
    [kind |-> "addRelationship",
     relationship |-> ContextRelationship("ent-root", "ent-root", "OWNS")],
    OwnsSecondRoot,
    SoftDelete("a"), SoftDelete("p"), SoftDelete("ent-root"), SoftDelete("ent-root2"),
    Rename("ent-root"),
    [kind |-> "updateObjectAttributes", id |-> Some(<<"b">>),
     patch |-> Some([domainId |-> <<SP, "SALES", SP>>]), mode |-> Some("merge")],
    [kind |-> "objectsDelete", id |-> <<"b">>],
    [kind |-> "objectsSetType", id |-> <<"b">>, type |-> "Programme"] }

DialogInputs ==
  { <<<<"ent-root">>, "OWNS", <<"ent-root2">>>>,
    <<<<"a">>, "DEPENDS_ON", <<"b">>>>,
    <<<<"a">>, "PROVIDES", <<"b">>>> }

GateHistoryFits == Len(undoStack) + Len(redoStack) <= MaxGateHistory

DoCreateGate ==
  \E input \in GateMetadataInputs : CreateNewRepository(input) /\ GateHistoryFits'

DoLoadGate ==
  \E jsonText \in GateJsonTextInputs : LoadRepositoryFromJsonText(jsonText) /\ GateHistoryFits'

DoPropose ==
  \E updater \in GateUpdaterInputs :
    RelationshipsFit(updater) /\ SetEaRepository(updater) /\ GateHistoryFits'

DoCreateRelationship ==
  \E d \in DialogInputs :
    /\ DialogOffers(d[1], d[2], d[3])
    /\ Len(TheValue(eaRepository).relationships) < MaxContextRels
    /\ CreateRelationship(d[1], d[2], d[3])
    /\ GateHistoryFits'

NextGate ==
  \/ DoCreateGate
  \/ DoLoadGate
  \/ DoPropose
  \/ DoCreateRelationship

SpecGate == InitContext /\ [][NextGate]_vars

----------------------------------------------------------------------------
(* Properties of the gate, checked under SpecGate                          *)

\* the step is a proposal to setEaRepository, made directly or by the dialog
ProposalStep == returned'.name \in { "setEaRepository", "createRelationship" }

\* the step puts another repository in place: the proposal was accepted
Accepted == eaRepository' # eaRepository /\ eaRepository' # None

\* the object id is in repo and not soft-deleted
IsLive(repo, id) ==
  id \in DOMAIN repo.objects /\ ~IsSoftDeleted(repo.objects[id].attributes)

\* repo has one live Enterprise and no OWNS between two live Enterprises
BusinessUnitSound(repo) ==
  /\ Cardinality({ id \in DOMAIN repo.objects :
                     IsLive(repo, id) /\ repo.objects[id].type = "Enterprise" }) = 1
  /\ \A i \in 1..Len(repo.relationships) :
       ~ /\ repo.relationships[i].type = "OWNS"
         /\ IsLive(repo, repo.relationships[i].fromId)
         /\ IsLive(repo, repo.relationships[i].toId)
         /\ repo.objects[repo.relationships[i].fromId].type = "Enterprise"
         /\ repo.objects[repo.relationships[i].toId].type = "Enterprise"

\* C11: createNewRepository with Business Unit scope leaves a repository
\* with exactly one live Enterprise and no OWNS relationship between two live
\* Enterprises, and every proposal submitted through setEaRepository to such
\* a repository leaves the current repository, as long as there is one, in
\* that condition.
C11_BusinessUnitRootKept ==
  [][ /\ ( /\ returned'.name = "createNewRepository"
           /\ returned'.value.ok
           /\ ScopeOf(metadata') = Some("Business Unit") )
         => eaRepository' # None /\ BusinessUnitSound(TheValue(eaRepository'))
      /\ ( /\ ProposalStep
           /\ ScopeOf(metadata) = Some("Business Unit")
           /\ eaRepository # None
           /\ BusinessUnitSound(TheValue(eaRepository))
           /\ eaRepository' # None )
         => BusinessUnitSound(TheValue(eaRepository')) ]_vars

\* the created root has been renamed by an accepted proposal
C11_Witness ==
  /\ returned.name = "setEaRepository"
  /\ ScopeOf(metadata) = Some("Business Unit")
  /\ eaRepository # None
  /\ DOMAIN TheValue(eaRepository).objects = { <<"ent-root">> }
  /\ TheValue(eaRepository).objects[<<"ent-root">>].attributes["name"] = <<"y">>
  /\ undoStack # <<>>

\* Business Unit scope, ent-root a live Enterprise, ent-root2 an Enterprise
SecondRootPresent ==
  /\ eaRepository # None
  /\ ScopeOf(metadata) = Some("Business Unit")
  /\ IsLive(TheValue(eaRepository), <<"ent-root">>)
  /\ TheValue(eaRepository).objects[<<"ent-root">>].type = "Enterprise"
  /\ <<"ent-root2">> \in DOMAIN TheValue(eaRepository).objects
  /\ TheValue(eaRepository).objects[<<"ent-root2">>].type = "Enterprise"

\* nothing the context holds or has persisted changes
ContextUnchanged ==
  /\ eaRepository' = eaRepository
  /\ metadata' = metadata
  /\ undoStack' = undoStack
  /\ redoStack' = redoStack
  /\ storage' = storage

DomainOf(obj, meta) ==
  IF getObjectDomainId(obj) # None THEN TheValue(getObjectDomainId(obj))
  ELSE TheValue(normalizeDomainId(RepositoryNameOf(meta)))

\* repo has a relationship between two live objects of different domains
CrossesDomains(repo, meta) ==
  \E i \in 1..Len(repo.relationships) :
    /\ IsLive(repo, repo.relationships[i].fromId)
    /\ IsLive(repo, repo.relationships[i].toId)
    /\ DomainOf(repo.objects[repo.relationships[i].fromId], meta)
         # DomainOf(repo.objects[repo.relationships[i].toId], meta)

\* C13: in Domain scope, a proposal accepted by setEaRepository has no
\* relationship between two live objects whose normalized domainId values
\* differ, an object without domainId counting as of the repository's own
\* domain.
C13_AcceptedStaysInDomain ==
  [][ ( ProposalStep /\ ScopeOf(metadata) = Some("Domain") /\ Accepted )
      => ~CrossesDomains(TheValue(eaRepository'), metadata) ]_vars

\* every live object that is not a Programme comes with a live Programme
ProgrammeFirst(repo) ==
  (\E id \in DOMAIN repo.objects : IsLive(repo, id) /\ repo.objects[id].type # "Programme")
    => (\E id \in DOMAIN repo.objects : IsLive(repo, id) /\ repo.objects[id].type = "Programme")

\* C14: in Programme scope, a proposal accepted by setEaRepository has a live
\* Programme whenever it has a live object of another type.
C14_AcceptedHasProgramme ==
  [][ ( ProposalStep /\ ScopeOf(metadata) = Some("Programme") /\ Accepted )
      => ProgrammeFirst(TheValue(eaRepository')) ]_vars

\* an Application has been soft-deleted by an accepted proposal while the
\* Programme is live
C14_Witness ==
  /\ returned.name = "setEaRepository"
  /\ ScopeOf(metadata) = Some("Programme")
  /\ eaRepository # None
  /\ returned.value = eaRepository
  /\ IsLive(TheValue(eaRepository), <<"p">>)
  /\ <<"a">> \in DOMAIN TheValue(eaRepository).objects
  /\ ~IsLive(TheValue(eaRepository), <<"a">>)
  /\ emitted = <<>>

\* every relationship of repo is of an ArchiMate type and joins two objects
\* of repo whose types the definition of the relationship type admits
ArchiMateConforms(repo) ==
  \A i \in 1..Len(repo.relationships) :
    /\ SeqIncludes(ARCHIMATE_RELATIONSHIPS, repo.relationships[i].type)
    /\ repo.relationships[i].fromId \in DOMAIN repo.objects
    /\ repo.relationships[i].toId \in DOMAIN repo.objects
    /\ SeqIncludes(RELATIONSHIP_TYPE_DEFINITIONS[repo.relationships[i].type].fromTypes,
                   repo.objects[repo.relationships[i].fromId].type)
    /\ SeqIncludes(RELATIONSHIP_TYPE_DEFINITIONS[repo.relationships[i].type].toTypes,
                   repo.objects[repo.relationships[i].toId].type)

\* the updater resolves to a repository that does not conform
ProposesNonConforming(resolved) ==
  IF resolved.value = None THEN FALSE ELSE ~ArchiMateConforms(TheValue(resolved.value))

\* C15: with the reference framework ArchiMate, a proposal accepted by
\* setEaRepository has only relationships of the ArchiMate types whose two
\* ends exist with types the relationship-type definition admits, and a
\* proposal with any other relationship changes nothing.
C15_ArchiMateAcceptsConforming ==
  [][ ( ProposalStep /\ FrameworkOf(metadata) = Some("ArchiMate") )
      => /\ Accepted => ArchiMateConforms(TheValue(eaRepository'))
         /\ returned'.name = "setEaRepository" =>
              \A updater \in GateUpdaterInputs :
                ( /\ ProposesNonConforming(Resolve(updater, eaRepository))
                  /\ SetEaRepository(updater) )
                => ContextUnchanged ]_vars

\* the removal of an end of an ArchiMate relationship has just been rejected
C15_Witness ==
  /\ returned.name = "setEaRepository"
  /\ FrameworkOf(metadata) = Some("ArchiMate")
  /\ eaRepository # None
  /\ Len(TheValue(eaRepository).relationships) = 1
  /\ Len(emitted) = 1
  /\ emitted[1].text[1] = "ArchiMate reference framework blocked invalid relationship"

----------------------------------------------------------------------------
(* Specification SpecHistory: one repository, a few mutations, undo, redo  *)

MaxScenarioDepth == 3

HistoryMetadataInput == MetadataInput(<<"Sales">>, "Enterprise", "Custom", "Advisory")

HistoryUpdaterInputs ==
  { [kind |-> "addObject",
     object |-> ContextObject("a", "Application", Some([name |-> <<"x">>]))],
    [kind |-> "addObject",
     object |-> ContextObject("b", "Application", Some([name |-> <<"x">>]))],
    [kind |-> "addRelationship", relationship |-> ContextRelationship("a", "b", "DEPENDS_ON")],
    Rename("a") }

ScenarioFits == Len(undoStack) + Len(redoStack) <= MaxScenarioDepth

DoCreateHistory == CreateNewRepository(HistoryMetadataInput) /\ ScenarioFits'

DoMutate ==
  \E updater \in HistoryUpdaterInputs :
    RelationshipsFit(updater) /\ SetEaRepository(updater) /\ ScenarioFits'

DoUndoHistory == Undo

DoRedoHistory == Redo

NextHistory ==
  \/ DoCreateHistory
  \/ DoMutate
  \/ DoUndoHistory
  \/ DoRedoHistory

SpecHistory == InitContext /\ [][NextHistory]_vars

\* the repository a snapshot holds
RepositoryOf(snapshot) ==
  [order |-> [i \in 1..Len(snapshot.objects) |-> snapshot.objects[i].id],
   objects |-> [id \in { snapshot.objects[i].id : i \in 1..Len(snapshot.objects) } |->
                  LET i == CHOOSE j \in 1..Len(snapshot.objects) : snapshot.objects[j].id = id
                  IN snapshot.objects[i]],
   relationships |-> snapshot.relationships]

\* a mutation is committed: the state before it is the newest entry of the
\* undo stack, after the entries there were, and the redo stack is empty
MutationRecorded ==
  /\ undoStack' = Append(undoStack, undoStack'[Len(undoStack')])
  /\ RepositoryOf(undoStack'[Len(undoStack')]) = TheValue(eaRepository)
  /\ redoStack' = <<>>

\* undo succeeds: the newest entry of the undo stack becomes the current
\* state, and the state left goes to the front of the redo stack
UndoRestores ==
  /\ eaRepository' = Some(RepositoryOf(undoStack[Len(undoStack)]))
  /\ undoStack' = SubSeq(undoStack, 1, Len(undoStack) - 1)
  /\ redoStack' = <<redoStack'[1]>> \o redoStack
  /\ RepositoryOf(redoStack'[1]) = TheValue(eaRepository)

\* redo succeeds: the front of the redo stack becomes the current state, and
\* the state left goes back on the undo stack
RedoRestores ==
  /\ eaRepository' = Some(RepositoryOf(redoStack[1]))
  /\ redoStack' = Tail(redoStack)
  /\ undoStack' = Append(undoStack, undoStack'[Len(undoStack')])
  /\ RepositoryOf(undoStack'[Len(undoStack')]) = TheValue(eaRepository)

\* C16: every committed mutation puts the state it replaces on top of the
\* undo stack and empties the redo stack; undo puts back the state on top of
\* the undo stack and moves the state it leaves to the redo stack; redo does
\* the converse; redo on an empty redo stack returns false and changes
\* nothing.  So after three mutations undo gives the state after the second,
\* redo the state after the third, and a mutation committed after an undo
\* leaves nothing to redo.
C16_UndoRedoFollowMutations ==
  [][ /\ ( returned'.name = "setEaRepository" /\ eaRepository # None /\ Accepted )
         => MutationRecorded
      /\ ( returned'.name = "undo" /\ undoStack # <<>> )
         => returned'.value = TRUE /\ UndoRestores
      /\ ( returned'.name = "redo" /\ redoStack # <<>> )
         => returned'.value = TRUE /\ RedoRestores
      /\ ( returned'.name = "redo" /\ redoStack = <<>> )
         => returned'.value = FALSE /\ ContextUnchanged ]_vars

\* three mutations, an undo and a redo: the three earlier states are on the
\* undo stack, the newest of them has no relationship, the current one has
C16_Witness ==
  /\ returned = [name |-> "redo", value |-> TRUE]
  /\ Len(undoStack) = 3
  /\ redoStack = <<>>
  /\ RepositoryOf(undoStack[1]) = EmptyRepository
  /\ Len(RepositoryOf(undoStack[3]).order) = 2
  /\ RepositoryOf(undoStack[3]).relationships = <<>>
  /\ Len(TheValue(eaRepository).relationships) = 1

----------------------------------------------------------------------------
(* Specification SpecEviction: one object retagged again and again, until  *)
(* the stacks are full                                                     *)

Retag(id, state) ==
  [kind |-> "updateObjectAttributes", id |-> Some(<<id>>),
   patch |-> Some([lifecycleState |-> <<state>>]), mode |-> Some("merge")]

EvictionUpdaterInputs ==
  { [kind |-> "addObject",
     object |-> ContextObject("a", "Application", Some([name |-> <<"x">>]))],
    Retag("a", "Baseline"),
    Retag("a", "Target") }

DoCreateOnce == eaRepository = None /\ CreateNewRepository(HistoryMetadataInput)

DoRetag == \E updater \in EvictionUpdaterInputs : SetEaRepository(updater)

DoUndoEviction == Undo

DoRedoEviction == Redo

NextEviction ==
  \/ DoCreateOnce
  \/ DoRetag
  \/ DoUndoEviction
  \/ DoRedoEviction

SpecEviction == InitContext /\ [][NextEviction]_vars

\* the last n entries of seq, all of them when there are fewer
LastEntries(seq, n) ==
  IF Len(seq) <= n THEN seq ELSE SubSeq(seq, Len(seq) - n + 1, Len(seq))

\* the step records history: a commit whose snapshot differs from the last
HistoryRecorded ==
  /\ returned'.name = "setEaRepository"
  /\ lastSerialized # None
  /\ lastSerialized' # None
  /\ lastSerialized' # lastSerialized

\* C17: neither stack ever holds more than 50 snapshots; a commit that
\* records history puts the snapshot it replaces at the end of the undo
\* stack and empties the redo stack, and the undo stack then holds the 50
\* newest of its entries, in the order in which they were put.
C17_StacksBounded ==
  [][ /\ Len(undoStack') <= 50
      /\ Len(redoStack') <= 50
      /\ HistoryRecorded =>
           /\ undoStack' = LastEntries(Append(undoStack, TheValue(lastSerialized)), 50)
           /\ redoStack' = <<>> ]_vars

\* the undo stack is full and its oldest entry is no longer the empty
\* repository the history began with
C17_Witness ==
  /\ returned.name = "setEaRepository"
  /\ Len(undoStack) = 50
  /\ undoStack[1].objects # <<>>
  /\ "lifecycleState" \in DOMAIN undoStack[1].objects[1].attributes

----------------------------------------------------------------------------
(* Specification SpecGovernance: Strict and Advisory repositories whose    *)
(* debt comes and goes                                                      *)

MaxGovernanceHistory == 1

GovernanceSnapshot(mode) ==
  [version |-> 1,
   metadata |-> [WithCreatedAt(MetadataInput(<<"Sales">>, "Enterprise", "Custom", mode), 0)
                   EXCEPT !.lifecycleCoverage = "Both"],
   objects |->
     << [id |-> <<"a">>, type |-> "Application",
         attributes |-> [name |-> <<"x">>, lifecycleState |-> <<"Target">>]],
        [id |-> <<"p">>, type |-> "Programme",
         attributes |-> [lifecycleState |-> <<"Target">>]] >>,
   relationships |->
     << [fromId |-> <<"p">>, toId |-> <<"a">>, type |-> "DELIVERS",
         attributes |-> EmptyAttributes] >>,
   updatedAt |-> 0]

GovernanceJsonTextInputs ==
  { [parses |-> TRUE, value |-> GovernanceSnapshot(mode)] : mode \in GovernanceModes }

GovernanceMetadataInputs ==
  { MetadataInput(<<"Sales">>, "Enterprise", "Custom", "Strict") }

\* p gets a name, p gets a blank name, a loses its lifecycle tag, a gets it
\* back, p is taken out of the object map under its relationship
GovernanceUpdaterInputs ==
  { [kind |-> "updateObjectAttributes", id |-> Some(<<"p">>),
     patch |-> Some([name |-> <<"x">>]), mode |-> Some("merge")],
    [kind |-> "updateObjectAttributes", id |-> Some(<<"p">>),
     patch |-> Some([name |-> <<SP>>]), mode |-> Some("merge")],
    [kind |-> "updateObjectAttributes", id |-> Some(<<"a">>),
     patch |-> Some([name |-> <<"x">>]), mode |-> Some("replace")],
    Retag("a", "Target"),
    [kind |-> "objectsDelete", id |-> <<"p">>] }

GovernanceHistoryFits == Len(undoStack) + Len(redoStack) <= MaxGovernanceHistory

DoCreateGovernance ==
  \E input \in GovernanceMetadataInputs : CreateNewRepository(input) /\ GovernanceHistoryFits'

DoLoadGovernance ==
  \E jsonText \in GovernanceJsonTextInputs :
    LoadRepositoryFromJsonText(jsonText) /\ GovernanceHistoryFits'

DoChange ==
  \E updater \in GovernanceUpdaterInputs : SetEaRepository(updater) /\ GovernanceHistoryFits'

DoUndoGovernance == Undo

DoRedoGovernance == Redo

NextGovernance ==
  \/ DoCreateGovernance
  \/ DoLoadGovernance
  \/ DoChange
  \/ DoUndoGovernance
  \/ DoRedoGovernance

SpecGovernance == InitContext /\ [][NextGovernance]_vars

----------------------------------------------------------------------------
(* Properties of governance                                                *)

\* the step commits a state: a repository and its metadata, not both as before
Committed ==
  /\ eaRepository' # None
  /\ metadata' # None
  /\ ( eaRepository' # eaRepository \/ metadata' # metadata )

StrictStep == Committed /\ TheValue(metadata').governanceMode = "Strict"

AdvisoryStep == Committed /\ TheValue(metadata').governanceMode = "Advisory"

\* the debt and the snapshot of the committed state
NextSummary ==
  buildGovernanceDebt(TheValue(eaRepository'), TheValue(metadata').lifecycleCoverage)

NextSnapshot == serializeRepository(TheValue(eaRepository'), TheValue(metadata'), now)

\* the debt of the state a snapshot holds
DebtOf(snapshot) ==
  buildGovernanceDebt(RepositoryOf(snapshot), snapshot.metadata.lifecycleCoverage)

Blocking(summary) ==
  \/ summary.mandatoryFindingCount # 0
  \/ summary.relationshipErrorCount # 0
  \/ summary.invalidRelationshipInsertCount # 0
  \/ summary.lifecycleTagMissingCount # 0

Successes(msgs) ==
  Cardinality({ i \in 1..Len(msgs) :
                  msgs[i] = Success(<<"Governance compliant: saving re-enabled.">>) })

AdvisoryWarnings(msgs) ==
  Cardinality({ i \in 1..Len(msgs) :
                  /\ msgs[i].level = "warning"
                  /\ msgs[i].text[1] = "Saved with governance warnings (Advisory)" })

\* a Strict state is written exactly when none of the four counts is nonzero
StrictWrittenIff ==
  IF Blocking(NextSummary)
  THEN storage' = storage /\ storage' # Some(NextSnapshot)
  ELSE storage' = Some(NextSnapshot)

C19_SuccessOncePerUnblocking ==
  [][ /\ StrictStep =>
           IF Blocking(NextSummary)
           THEN /\ Successes(emitted') = 0
                /\ lastSaveBlockedKey' = Some(DebtKey(NextSummary))
           ELSE /\ Successes(emitted') = (IF lastSaveBlockedKey # None THEN 1 ELSE 0)
                /\ lastSaveBlockedKey' = None
                /\ storage' = Some(NextSnapshot)
      /\ ~StrictStep =>
           /\ lastSaveBlockedKey' = lastSaveBlockedKey
           /\ Successes(emitted') = 0 ]_vars

\* a change has just taken a Strict repository out of its blocked state
C19_Witness ==
  /\ returned.name = "setEaRepository"
  /\ metadata # None
  /\ TheValue(metadata).governanceMode = "Strict"
  /\ Successes(emitted) = 1
  /\ lastSaveBlockedKey = None
  /\ storage # None
  /\ storage = lastSerialized

\* a snapshot of the undo stack was taken in Advisory mode and has the debt
\* signature of the state now committed: that signature was warned about
WarnedBefore ==
  \E i \in 1..Len(undoStack) :
    /\ undoStack[i].metadata.governanceMode = "Advisory"
    /\ DebtOf(undoStack[i]).total > 0
    /\ DebtKey(DebtOf(undoStack[i])) = DebtKey(NextSummary)

\* C20 as stated: every state committed in Advisory mode is written to
\* storage, and an evaluation whose debt signature was warned about before
\* gives no warning.
C20_WarnedOncePerSignature ==
  [][ AdvisoryStep =>
        /\ storage' = Some(NextSnapshot)
        /\ WarnedBefore => AdvisoryWarnings(emitted') = 0 ]_vars

\* C20: every state committed in Advisory mode is written to storage; it
\* gives one warning when it has debt and its signature is not the one last
\* warned about, and none otherwise; the signature last warned about is
\* forgotten when a state without debt is committed, and no other step
\* touches it or gives that warning.
C20_WarnedWhenSignatureChanges ==
  [][ /\ AdvisoryStep =>
           /\ storage' = Some(NextSnapshot)
           /\ AdvisoryWarnings(emitted') =
                (IF NextSummary.total > 0
                    /\ lastAdvisoryWarnKey # Some(DebtKey(NextSummary)) THEN 1 ELSE 0)
           /\ lastAdvisoryWarnKey' =
                (IF NextSummary.total > 0 THEN Some(DebtKey(NextSummary)) ELSE None)
      /\ ~AdvisoryStep =>
           /\ lastAdvisoryWarnKey' = lastAdvisoryWarnKey
           /\ AdvisoryWarnings(emitted') = 0 ]_vars

\* undo has brought back an Advisory state with debt, and it is warned about
\* once more
C20_Witness ==
  /\ returned = [name |-> "undo", value |-> TRUE]
  /\ metadata # None
  /\ TheValue(metadata).governanceMode = "Advisory"
  /\ AdvisoryWarnings(emitted) = 1
  /\ storage # None
  /\ storage = lastSerialized

----------------------------------------------------------------------------
(* ViewRepository                                                          *)
(*                                                                         *)
(* A view definition is a Record<string, unknown>: a function from the     *)
(* keys it has to their values.  The strings of id, name and the two type  *)
(* lists are token sequences; viewType is compared as it is.               *)

VIEW_TYPES ==
  << "ApplicationDependency", "CapabilityMap", "ApplicationLandscape",
     "TechnologyLandscape", "ImpactView" >>

\* the value null of a key that is present
NULL == "null"

\* view[key], undefined when the key is missing
Field(view, key) == IF key \in DOMAIN view THEN Some(view[key]) ELSE None

isValidViewType(value) == value # None /\ SeqIncludes(VIEW_TYPES, TheValue(value))

normalizeName(value) == toLowerCase(Trim(value))

\* Array.from(new Set(values)): the first occurrence of each value, in order
RECURSIVE ArrayFromSet(_, _)
ArrayFromSet(values, seen) ==
  IF values = <<>> THEN seen
  ELSE IF SeqIncludes(seen, Head(values)) THEN ArrayFromSet(Tail(values), seen)
  ELSE ArrayFromSet(Tail(values), Append(seen, Head(values)))

\* a normalizeList that keeps duplicates
normalizeList_KeepsDuplicates(values) ==
  LET trimmed == [i \in 1..Len(Coalesce(values, <<>>)) |-> Trim(Coalesce(values, <<>>)[i])]
      NonBlank(v) == v # <<>>
  IN SelectSeq(trimmed, NonBlank)

normalizeList(values) ==
  LET trimmed == [i \in 1..Len(Coalesce(values, <<>>)) |-> Trim(Coalesce(values, <<>>)[i])]
      NonBlank(v) == v # <<>>
  IN ArrayFromSet(SelectSeq(trimmed, NonBlank), <<>>)

\* hasAny(set, candidates), the set holding strings and the candidates being
\* type names
hasAny(set, candidates) == \E i \in 1..Len(candidates) : <<candidates[i]>> \in set

FORBIDDEN_EMBEDDED_KEYS ==
  << "elements", "relationships", "objects", "nodes", "edges", "positions",
     "nodePositions", "layout", "graph", "repository", "catalog", "render",
     "cytoscape" >>

\* the index of the first entry of seq that is in bad, or 0
FirstIn(seq, bad) ==
  IF \E i \in 1..Len(seq) : seq[i] \in bad
  THEN CHOOSE i \in 1..Len(seq) : seq[i] \in bad /\ \A j \in 1..(i - 1) : seq[j] \notin bad
  ELSE 0

\* a check that finds nothing
hasEmbeddedPayload_Never(view) == None

\* hasEmbeddedPayload: the first forbidden key that view has with a value
\* other than null and undefined, or null
hasEmbeddedPayload(view) ==
  LET i == FirstIn(FORBIDDEN_EMBEDDED_KEYS, { k \in DOMAIN view : view[k] # NULL })
  IN IF i = 0 THEN None ELSE Some(FORBIDDEN_EMBEDDED_KEYS[i])

viewTypeRules ==
  [ CapabilityMap |->
      [ allowedElementTypes |->
          <<"Capability", "BusinessService", "ApplicationService", "Application">>,
        allowedRelationshipTypes |->
          <<"DECOMPOSES_TO", "REALIZED_BY", "SUPPORTS", "SUPPORTED_BY">> ],
    ApplicationDependency |->
      [ allowedElementTypes |-> <<"Application">>,
        allowedRelationshipTypes |-> <<"DEPENDS_ON">> ],
    ApplicationLandscape |->
      [ allowedElementTypes |-> <<"Application">>, allowedRelationshipTypes |-> <<>> ],
    TechnologyLandscape |->
      [ allowedElementTypes |-> <<"Technology">>, allowedRelationshipTypes |-> <<>> ],
    ImpactView |->
      [ allowedElementTypes |-> <<"Programme", "Capability">>,
        allowedRelationshipTypes |-> <<"IMPACTS">> ] ]

\* the strings of list that names does not include
NotIncluded(list, names) ==
  { list[i] : i \in { j \in 1..Len(list) : ChunkOf(list[j]) = None
                                             \/ ~SeqIncludes(names, TheValue(ChunkOf(list[j]))) } }

\* the relationship types of list that lack an end among elementTypes
LackingEndpoint(list, elementTypes) ==
  { list[i] : i \in { j \in 1..Len(list) :
       \/ getRelationshipEndpointRule(Some(list[j])) = None
       \/ ~hasAny(elementTypes, TheValue(getRelationshipEndpointRule(Some(list[j]))).from)
       \/ ~hasAny(elementTypes, TheValue(getRelationshipEndpointRule(Some(list[j]))).to) } }

\* an endpoint check that asks for one end only
EndpointError_EitherEnd(relationshipTypes, elementTypes) ==
  LET lacking ==
        { relationshipTypes[i] : i \in { j \in 1..Len(relationshipTypes) :
            \/ getRelationshipEndpointRule(Some(relationshipTypes[j])) = None
            \/ /\ ~hasAny({ elementTypes[k] : k \in 1..Len(elementTypes) },
                          TheValue(getRelationshipEndpointRule(Some(relationshipTypes[j]))).from)
               /\ ~hasAny({ elementTypes[k] : k \in 1..Len(elementTypes) },
                          TheValue(getRelationshipEndpointRule(Some(relationshipTypes[j]))).to) } }
      i == FirstIn(relationshipTypes, lacking)
  IN IF i = 0 THEN None
     ELSE IF getRelationshipEndpointRule(Some(relationshipTypes[i])) = None
       THEN Some(<<"Rejected createView: unknown relationshipType (no endpoint semantics defined)",
                   relationshipTypes[i]>>)
     ELSE Some(<<"Rejected createView: relationshipType requires endpoint types",
                 relationshipTypes[i],
                 TheValue(getRelationshipEndpointRule(Some(relationshipTypes[i]))).from,
                 TheValue(getRelationshipEndpointRule(Some(relationshipTypes[i]))).to,
                 elementTypes>>)

\* the loop over the relationship types: the error of the first one that has
\* no endpoint rule or lacks a from or a to type among elementTypes, or null
EndpointError(relationshipTypes, elementTypes) ==
  LET i == FirstIn(relationshipTypes,
                   LackingEndpoint(relationshipTypes,
                                   { elementTypes[k] : k \in 1..Len(elementTypes) }))
  IN IF i = 0 THEN None
     ELSE IF getRelationshipEndpointRule(Some(relationshipTypes[i])) = None
       THEN Some(<<"Rejected createView: unknown relationshipType (no endpoint semantics defined)",
                   relationshipTypes[i]>>)
     ELSE Some(<<"Rejected createView: relationshipType requires endpoint types",
                 relationshipTypes[i],
                 TheValue(getRelationshipEndpointRule(Some(relationshipTypes[i]))).from,
                 TheValue(getRelationshipEndpointRule(Some(relationshipTypes[i]))).to,
                 elementTypes>>)

\* the checks of createView against the view type, on the normalized lists
TypeError(viewType, elementTypes, relationshipTypes) ==
  IF elementTypes = <<>>
  THEN Some(<<"Rejected createView: allowedElementTypes must be non-empty.">>)
  ELSE IF FirstIn(elementTypes,
                  NotIncluded(elementTypes, viewTypeRules[viewType].allowedElementTypes)) # 0
  THEN Some(<<"Rejected createView: elementType is not allowed for viewType",
              elementTypes[FirstIn(elementTypes,
                 NotIncluded(elementTypes, viewTypeRules[viewType].allowedElementTypes))],
              viewType>>)
  ELSE IF FirstIn(relationshipTypes,
                  NotIncluded(relationshipTypes,
                              viewTypeRules[viewType].allowedRelationshipTypes)) # 0
  THEN Some(<<"Rejected createView: relationshipType is not allowed for viewType",
              relationshipTypes[FirstIn(relationshipTypes,
                 NotIncluded(relationshipTypes,
                             viewTypeRules[viewType].allowedRelationshipTypes))],
              viewType>>)
  ELSE EndpointError(relationshipTypes, elementTypes)

\* the object createView stores
StoredView(view, name, elementTypes, relationshipTypes) ==
  Spread(view, [name |-> name, allowedElementTypes |-> elementTypes,
                allowedRelationshipTypes |-> relationshipTypes])

\* the error of createView(view) on the maps ids and names, or null
CreateViewError(view, ids, names) ==
  IF hasEmbeddedPayload(view) # None
  THEN Some(<<"Rejected createView: view definitions must not embed payloads (forbidden key)",
              TheValue(hasEmbeddedPayload(view))>>)
  ELSE IF Trim(Coalesce(Field(view, "id"), <<>>)) = <<>>
  THEN Some(<<"Rejected createView: id is required.">>)
  ELSE IF Trim(Coalesce(Field(view, "id"), <<>>)) \in DOMAIN ids
  THEN Some(<<"Rejected createView: duplicate id", Trim(Coalesce(Field(view, "id"), <<>>))>>)
  ELSE IF Trim(Coalesce(Field(view, "name"), <<>>)) = <<>>
  THEN Some(<<"Rejected createView: name is required.">>)
  ELSE IF normalizeName(Trim(Coalesce(Field(view, "name"), <<>>))) \in DOMAIN names
  THEN Some(<<"Rejected createView: duplicate view name for project",
              Trim(Coalesce(Field(view, "name"), <<>>))>>)
  ELSE IF ~isValidViewType(Field(view, "viewType"))
  THEN Some(<<"Rejected createView: invalid viewType", Field(view, "viewType")>>)
  ELSE TypeError(view["viewType"],
                 normalizeList(Field(view, "allowedElementTypes")),
                 normalizeList(Field(view, "allowedRelationshipTypes")))

\* the reference of the object createView stores: a new object
StoreAt(callerRef, id) == <<"stored", id>>

CallerRef == <<"caller">>

\* Map.prototype.delete
MapDelete(m, k) == [x \in (DOMAIN m) \ {k} |-> m[x]]

\* a ViewRepository (its two maps and the objects they refer to) and the
\* result of the call that left it so
Instance(heap, ids, names, res) == [heap |-> heap, byId |-> ids, names |-> names, result |-> res]

\* createView once the checks are made
CreateViewOutcome(heap, ids, names, view, id, name, error) ==
  IF error # None THEN
    Instance(MapSet(heap, CallerRef, view), ids, names, Fail(TheValue(error)))
  ELSE
    Instance(MapSet(MapSet(heap, CallerRef, view), StoreAt(CallerRef, id),
                    StoredView(view, name,
                               normalizeList(Field(view, "allowedElementTypes")),
                               normalizeList(Field(view, "allowedRelationshipTypes")))),
             MapSet(ids, id, StoreAt(CallerRef, id)),
             MapSet(names, normalizeName(name), id),
             [ok |-> TRUE, view |-> StoreAt(CallerRef, id)])

\* ViewRepository.createView(view) on the repository (heap, ids, names), view
\* being the object at CallerRef
createView(heap, ids, names, view) ==
  CreateViewOutcome(heap, ids, names, view,
                    Trim(Coalesce(Field(view, "id"), <<>>)),
                    Trim(Coalesce(Field(view, "name"), <<>>)),
                    CreateViewError(view, ids, names))

\* a deleteViewById that leaves the name in the index
DeleteName_Keeps(names, name) == names

\* this.idByNormalizedName.delete(normalizeName(existing.name))
DeleteName(names, name) == MapDelete(names, normalizeName(name))

\* a deleteViewById that empties the maps when there is no such view
DeleteViewOutcome_ClearsOnMiss(heap, ids, names, key) ==
  IF key = <<>> THEN
    Instance(heap, ids, names, Fail(<<"Rejected deleteViewById: id is required.">>))
  ELSE IF key \notin DOMAIN ids THEN
    Instance(heap, <<>>, <<>>, Fail(<<"Rejected deleteViewById: no such view", key>>))
  ELSE
    Instance(MapDelete(heap, ids[key]), MapDelete(ids, key),
             DeleteName(names, heap[ids[key]].name),
             [ok |-> TRUE, deleted |-> heap[ids[key]]])

\* deleteViewById once the key is made
DeleteViewOutcome(heap, ids, names, key) ==
  IF key = <<>> THEN
    Instance(heap, ids, names, Fail(<<"Rejected deleteViewById: id is required.">>))
  ELSE IF key \notin DOMAIN ids THEN
    Instance(heap, ids, names, Fail(<<"Rejected deleteViewById: no such view", key>>))
  ELSE
    Instance(MapDelete(heap, ids[key]), MapDelete(ids, key),
             DeleteName(names, heap[ids[key]].name),
             [ok |-> TRUE, deleted |-> heap[ids[key]]])

\* ViewRepository.deleteViewById(id) on the repository (heap, ids, names)
deleteViewById(heap, ids, names, id) ==
  DeleteViewOutcome(heap, ids, names, Trim(Coalesce(id, <<>>)))

\* the ViewRepository after a call
ViewsBecome(name, instance) ==
  /\ viewHeap' = instance.heap
  /\ byId' = instance.byId
  /\ idByNormalizedName' = instance.names
  /\ viewResult' = [name |-> name, value |-> instance.result]

CreateView(view) ==
  /\ ViewsBecome("createView", createView(viewHeap, byId, idByNormalizedName, view))
  /\ UNCHANGED <<repoVars, pureVars, ctxVars, storeVars>>

DeleteViewById(id) ==
  /\ ViewsBecome("deleteViewById", deleteViewById(viewHeap, byId, idByNormalizedName, id))
  /\ UNCHANGED <<repoVars, pureVars, ctxVars, storeVars>>

\* the caller assigns to the properties of the object it passed
MutateCallersObject(view) ==
  /\ CallerRef \in DOMAIN viewHeap
  /\ viewHeap[CallerRef] # view
  /\ viewHeap' = [viewHeap EXCEPT ![CallerRef] = view]
  /\ viewResult' = [name |-> "mutate", value |-> None]
  /\ UNCHANGED <<byId, idByNormalizedName, repoVars, pureVars, ctxVars, storeVars>>

----------------------------------------------------------------------------
(* Specification SpecViews: one ViewRepository and its caller              *)

View(id, name, viewType, elementTypes, relationshipTypes) ==
  [id |-> id, name |-> name, viewType |-> viewType,
   allowedElementTypes |-> elementTypes, allowedRelationshipTypes |-> relationshipTypes]

WithKey(view, key, value) == Spread(view, [k \in {key} |-> value])

SalesMap ==
  View(<<"v1">>, <<"Sales">>, "CapabilityMap",
       << <<"Capability">>, <<SP, "BusinessService">>, <<"Capability">>, <<SP>> >>,
       << <<"REALIZED_BY">>, <<"REALIZED_BY", SP>>, <<"DECOMPOSES_TO">> >>)

SalesMapNormalized ==
  View(<<"v1">>, <<"Sales">>, "CapabilityMap",
       << <<"Capability">>, <<"BusinessService">> >>,
       << <<"REALIZED_BY">>, <<"DECOMPOSES_TO">> >>)

Dependencies ==
  View(<<SP, "v2">>, <<SP, "HR", SP>>, "ApplicationDependency",
       << <<"Application">> >>, << <<"DEPENDS_ON">> >>)

Landscape ==
  View(<<"v2">>, <<"SALES">>, "ApplicationLandscape", << <<"Application">> >>, <<>>)

Impact ==
  View(<<"v1">>, <<"HR">>, "ImpactView",
       << <<"Programme">>, <<"Capability">> >>, << <<"IMPACTS">> >>)

CapabilityOnly ==
  View(<<"v1">>, <<"Sales">>, "CapabilityMap",
       << <<"Capability">> >>, << <<"REALIZED_BY">> >>)

ViewInputs ==
  { SalesMap, SalesMapNormalized, Dependencies, Landscape, Impact, CapabilityOnly,
    View(<<"v1">>, <<"Sales">>, "ApplicationDependency", << <<"Technology">> >>, <<>>),
    View(<<"v1">>, <<"Sales">>, "ApplicationDependency",
         << <<"Application">> >>, << <<"OWNS">> >>),
    View(<<"v1">>, <<"Sales">>, "CapabilityMap", << <<SP>> >>, <<>>),
    View(<<"v1">>, <<"Sales">>, "Bogus", << <<"Application">> >>, <<>>),
    View(<<SP>>, <<"Sales">>, "ApplicationLandscape", << <<"Application">> >>, <<>>),
    View(<<"v1">>, <<SP>>, "ApplicationLandscape", << <<"Application">> >>, <<>>),
    [id |-> <<"v2">>, name |-> <<"HR">>, viewType |-> "TechnologyLandscape",
     allowedElementTypes |-> << <<"Technology">> >>],
    WithKey(SalesMap, "layout", NULL),
    WithKey(Dependencies, "elements", "data"),
    WithKey(WithKey(Impact, "edges", "data"), "nodes", "data"),
    WithKey(WithKey(Landscape, "cytoscape", "data"), "graph", NULL) }

ViewIdInputs == { None, Some(<<SP>>), Some(<<"v1">>), Some(<<SP, "v2">>), Some(<<"v3">>) }

DoCreateView == \E view \in ViewInputs : CreateView(view)

DoDeleteViewById == \E id \in ViewIdInputs : DeleteViewById(id)

DoMutateCallersObject == \E view \in ViewInputs : MutateCallersObject(view)

InitViews == RepositoryIdle /\ PureIdle /\ ContextIdle /\ BackendIdle

NextViews ==
  \/ DoCreateView
  \/ DoDeleteViewById
  \/ DoMutateCallersObject

SpecViews == InitViews /\ [][NextViews]_vars

----------------------------------------------------------------------------
(* Properties of the ViewRepository                                        *)

ForbiddenKeys == { FORBIDDEN_EMBEDDED_KEYS[i] : i \in 1..Len(FORBIDDEN_EMBEDDED_KEYS) }

\* the stored views, by id, before and after a step
Stored(id) == viewHeap[byId[id]]
StoredNext(id) == viewHeap'[byId'[id]]

\* the step leaves the repository as it was: the same views, stored as before
ViewsUnchanged ==
  /\ byId' = byId
  /\ idByNormalizedName' = idByNormalizedName
  /\ \A id \in DOMAIN byId : StoredNext(id) = Stored(id)

\* the step is createView(view)
CreateViewOf(view) ==
  viewResult'.name = "createView" /\ viewHeap'[CallerRef] = view

\* C21 as stated: no stored view has a forbidden key, and createView of a
\* payload that has one is rejected and stores nothing.
C21_NoForbiddenKeyStored ==
  [][ /\ \A id \in DOMAIN byId' : (DOMAIN StoredNext(id)) \cap ForbiddenKeys = {}
      /\ \A view \in ViewInputs :
           ( CreateViewOf(view) /\ (DOMAIN view) \cap ForbiddenKeys # {} )
           => ~viewResult'.value.ok /\ ViewsUnchanged ]_vars

\* C21: no stored view has a forbidden key with a value other than null, and
\* createView of a payload that has one is rejected, with an error that
\* names a forbidden key, and stores nothing.
C21_NoEmbeddedPayloadStored ==
  [][ /\ \A id \in DOMAIN byId' :
           \A key \in (DOMAIN StoredNext(id)) \cap ForbiddenKeys : StoredNext(id)[key] = NULL
      /\ \A view \in ViewInputs :
           ( CreateViewOf(view)
             /\ \E key \in (DOMAIN view) \cap ForbiddenKeys : view[key] # NULL )
           => /\ ~viewResult'.value.ok
              /\ viewResult'.value.error[2] \in (DOMAIN view) \cap ForbiddenKeys
              /\ ViewsUnchanged ]_vars

\* a payload with an embedded key has just been rejected, while a view that
\* came with a key set to null is stored
C21_Witness ==
  /\ viewResult.name = "createView"
  /\ ~viewResult.value.ok
  /\ viewResult.value.error[1] =
       "Rejected createView: view definitions must not embed payloads (forbidden key)"
  /\ \E id \in DOMAIN byId : "layout" \in DOMAIN Stored(id)

\* C22: the stored views have pairwise different ids and pairwise different
\* names after trimming and lower-casing; the name index holds exactly the
\* normalized names of the stored views, each with the id of its view; and
\* after deleteViewById the name of the deleted view is no longer in it.
C22_IdsAndNamesUnique ==
  /\ \A id1, id2 \in DOMAIN byId :
       id1 # id2 =>
         /\ Trim(Stored(id1).id) # Trim(Stored(id2).id)
         /\ toLowerCase(Trim(Stored(id1).name)) # toLowerCase(Trim(Stored(id2).name))
  /\ \A id \in DOMAIN byId : Trim(Stored(id).id) = id
  /\ DOMAIN idByNormalizedName = { toLowerCase(Trim(Stored(id).name)) : id \in DOMAIN byId }
  /\ \A id \in DOMAIN byId : idByNormalizedName[toLowerCase(Trim(Stored(id).name))] = id
  /\ ( viewResult.name = "deleteViewById" /\ viewResult.value.ok )
     => toLowerCase(Trim(viewResult.value.deleted.name)) \notin DOMAIN idByNormalizedName

\* a view has just been deleted, its name is free and another view remains
C22_Witness ==
  /\ viewResult.name = "deleteViewById"
  /\ viewResult.value.ok
  /\ toLowerCase(Trim(viewResult.value.deleted.name)) \notin DOMAIN idByNormalizedName
  /\ byId # <<>>

\* the type names of a list of strings
Names(list) == { list[i] : i \in 1..Len(list) }
Chunks(names) == { <<names[i]>> : i \in 1..Len(names) }

\* a stored view conforms to its view type
Conforms(view) ==
  /\ view.viewType \in { VIEW_TYPES[i] : i \in 1..Len(VIEW_TYPES) }
  /\ view.allowedElementTypes # <<>>
  /\ Names(view.allowedElementTypes) \subseteq
       Chunks(viewTypeRules[view.viewType].allowedElementTypes)
  /\ Names(view.allowedRelationshipTypes) \subseteq
       Chunks(viewTypeRules[view.viewType].allowedRelationshipTypes)
  /\ \A t \in Names(view.allowedRelationshipTypes) :
       /\ t[1] \in DOMAIN RELATIONSHIP_ENDPOINT_RULES
       /\ Chunks(RELATIONSHIP_ENDPOINT_RULES[t[1]].from) \cap Names(view.allowedElementTypes) # {}
       /\ Chunks(RELATIONSHIP_ENDPOINT_RULES[t[1]].to) \cap Names(view.allowedElementTypes) # {}

\* C23: every stored view has a valid view type, a non-empty list of element
\* types within the allow-list of that view type, relationship types within
\* its allow-list, and for each relationship type a canonical from type and
\* a canonical to type among its element types; createView of a
\* CapabilityMap with element types [Capability] and relationship types
\* [REALIZED_BY] is rejected, and when id and name are free the error names
\* REALIZED_BY and the endpoint types Capability and BusinessService.
C23_StoredViewsConform ==
  [][ /\ \A id \in DOMAIN byId' : Conforms(StoredNext(id))
      /\ CreateViewOf(CapabilityOnly) =>
           /\ ~viewResult'.value.ok
           /\ ViewsUnchanged
           /\ ( <<"v1">> \notin DOMAIN byId /\ <<"sales">> \notin DOMAIN idByNormalizedName )
              => viewResult'.value.error =
                   << "Rejected createView: relationshipType requires endpoint types",
                      <<"REALIZED_BY">>, <<"Capability">>, <<"BusinessService">>,
                      << <<"Capability">> >> >> ]_vars

\* the CapabilityMap without BusinessService has just been rejected for its
\* endpoints, while another view is stored
C23_Witness ==
  /\ viewResult.name = "createView"
  /\ viewHeap[CallerRef] = CapabilityOnly
  /\ ~viewResult.value.ok
  /\ viewResult.value.error[1] = "Rejected createView: relationshipType requires endpoint types"
  /\ byId # <<>>

\* the index of the first entry of list that equals x after trimming
FirstAt(list, x) == CHOOSE i \in 1..Len(list) : Trim(list[i]) = x /\ \A j \in 1..(i - 1) : Trim(list[j]) # x

\* stored is given trimmed, without blanks, each string once, in the order of
\* the first occurrences
NormalizedFrom(stored, given) ==
  /\ \A i \in 1..Len(stored) : stored[i] # <<>> /\ Trim(stored[i]) = stored[i]
  /\ \A i, j \in 1..Len(stored) : i # j => stored[i] # stored[j]
  /\ Names(stored) = { Trim(given[i]) : i \in 1..Len(given) } \ { <<>> }
  /\ \A i, j \in 1..Len(stored) :
       i < j => FirstAt(given, stored[i]) < FirstAt(given, stored[j])

\* C24: a successful createView stores a new object, with the trimmed name
\* and with each type list trimmed, without blank entries and with each
\* entry once in the order of first occurrences; normalizing a stored list
\* again gives the same list; and neither an assignment to the caller's
\* object nor a rejected createView changes a stored view.
C24_StoresNormalizedCopy ==
  [][ /\ \A view \in ViewInputs :
           ( CreateViewOf(view) /\ viewResult'.value.ok ) =>
             /\ viewResult'.value.view # CallerRef
             /\ byId'[Trim(view.id)] = viewResult'.value.view
             /\ viewHeap'[viewResult'.value.view].name = Trim(view.name)
             /\ NormalizedFrom(viewHeap'[viewResult'.value.view].allowedElementTypes,
                               Coalesce(Field(view, "allowedElementTypes"), <<>>))
             /\ NormalizedFrom(viewHeap'[viewResult'.value.view].allowedRelationshipTypes,
                               Coalesce(Field(view, "allowedRelationshipTypes"), <<>>))
             /\ \A id \in DOMAIN byId : byId'[id] = byId[id] /\ StoredNext(id) = Stored(id)
      /\ \A id \in DOMAIN byId' :
           /\ normalizeList(Some(StoredNext(id).allowedElementTypes))
                = StoredNext(id).allowedElementTypes
           /\ normalizeList(Some(StoredNext(id).allowedRelationshipTypes))
                = StoredNext(id).allowedRelationshipTypes
      /\ ( viewResult'.name = "mutate"
           \/ (viewResult'.name = "createView" /\ ~viewResult'.value.ok) )
         => ViewsUnchanged ]_vars

\* the view given with a repeated relationship type has just been stored
\* with that type once
C24_Witness ==
  /\ viewResult.name = "createView"
  /\ viewResult.value.ok
  /\ viewHeap[CallerRef] = SalesMap
  /\ Stored(<<"v1">>).allowedRelationshipTypes = << <<"REALIZED_BY">>, <<"DECOMPOSES_TO">> >>
  /\ Stored(<<"v1">>).allowedElementTypes = << <<"Capability">>, <<"BusinessService">> >>

-----------------------------------------------------------------------------
(* RepositoryStore and ViewRepositoryStore                                 *)

MaxRevision == 3   \* calls are made while no revision would pass this value

\* a notification that leaves the revision as it was
NotifyRevision_Keeps(revision) == revision

\* repositoryRevision += 1, viewsRevision += 1
NotifyRevision(revision) == revision + 1

\* the revision after n notifications (a call makes at most two)
Notified(revision, n) ==
  IF n = 0 THEN revision
  ELSE IF n = 1 THEN NotifyRevision(revision)
  ELSE NotifyRevision(NotifyRevision(revision))

\* window.dispatchEvent(new Event(name)), once for each of n notifications
Events(name, n) == IF hasWindow THEN [i \in 1..n |-> name] ELSE <<>>

\* result.ok of a result object
IsOk(answer) == "ok" \in DOMAIN answer /\ answer.ok

Count(condition) == IF condition THEN 1 ELSE 0

\* a call on the RepositoryStore leaving the singleton `next', having
\* notified n times and returning value
RepositoryCall(name, next, n, value) ==
  /\ Notified(repositoryRevision, n) <= MaxRevision
  /\ repository' = next
  /\ repositoryRevision' = Notified(repositoryRevision, n)
  /\ dispatched' = Events("ea:repositoryChanged", n)
  /\ storeResult' = [name |-> name, value |-> value]
  /\ UNCHANGED <<repoVars, pureVars, ctxVars, viewVars,
                 activeProject, viewRepository, viewsRevision, hasWindow>>

\* the singleton after getRepository(): created when there was none
Singleton == IF repository = None THEN Some("created") ELSE repository

GetRepositoryRevision ==
  RepositoryCall("getRepositoryRevision", repository, 0, repositoryRevision)

GetRepository ==
  RepositoryCall("getRepository", Singleton, Count(repository = None), Singleton)

SetRepository(next) ==
  RepositoryCall("setRepository", Some(next), 1, None)

\* addElement(type, element), the repository answering with answer
AddElement(answer) ==
  RepositoryCall("addElement", Singleton,
                 Count(repository = None) + Count(IsOk(answer)), answer)

\* project?.id ?? ''
ProjectId == Coalesce(activeProject, <<>>)

\* getViewRepository() makes a ViewRepository: there is none, or it is bound
\* to another project id
Recreates == viewRepository = None \/ TheValue(viewRepository) # ProjectId

\* what getViewRepository() throws, if it throws
GetViewRepositoryThrows ==
  IF ProjectId = <<>> THEN
    Some(<<"No active project. Create/select a project before creating views.">>)
  ELSE IF Recreates /\ Trim(ProjectId) = <<>> THEN
    Some(<<"ViewRepository requires a projectId.">>)
  ELSE None

\* the ViewRepository that getViewRepository() returns
TheViewRepository ==
  IF Recreates THEN Instance(<<>>, <<>>, <<>>, [projectId |-> Trim(ProjectId)])
  ELSE Instance(viewHeap, byId, idByNormalizedName, [projectId |-> Trim(ProjectId)])

\* a call on the ViewRepositoryStore that got the ViewRepository and left it
\* as instance, having notified n times
ViewsCallReturns(name, instance, n) ==
  /\ Notified(viewsRevision, n) <= MaxRevision
  /\ ViewsBecome(name, instance)
  /\ viewRepository' = Some(Trim(ProjectId))
  /\ viewsRevision' = Notified(viewsRevision, n)
  /\ dispatched' = Events("ea:viewsChanged", n)
  /\ storeResult' = [name |-> name, value |-> instance.result]
  /\ UNCHANGED <<repoVars, pureVars, ctxVars,
                 repository, repositoryRevision, activeProject, hasWindow>>

\* a call on the ViewRepositoryStore that getViewRepository() ends by throwing
ViewsCallThrows(name, thrown) ==
  /\ storeResult' = [name |-> name, value |-> [throws |-> thrown]]
  /\ dispatched' = <<>>
  /\ UNCHANGED <<repoVars, pureVars, ctxVars, viewVars,
                 repository, repositoryRevision, activeProject, viewRepository,
                 viewsRevision, hasWindow>>

ViewsCall(name, instance) ==
  IF GetViewRepositoryThrows # None
  THEN ViewsCallThrows(name, TheValue(GetViewRepositoryThrows))
  ELSE ViewsCallReturns(name, instance, Count(Recreates) + Count(IsOk(instance.result)))

GetViewRepositoryRevision ==
  /\ storeResult' = [name |-> "getViewRepositoryRevision", value |-> viewsRevision]
  /\ dispatched' = <<>>
  /\ UNCHANGED <<repoVars, pureVars, ctxVars, viewVars,
                 repository, repositoryRevision, activeProject, viewRepository,
                 viewsRevision, hasWindow>>

GetViewRepository == ViewsCall("getViewRepository", TheViewRepository)

\* createView(view) of the store
StoreCreateView(view) ==
  ViewsCall("createView",
            createView(TheViewRepository.heap, TheViewRepository.byId,
                       TheViewRepository.names, view))

\* deleteView(viewId) of the store
StoreDeleteView(viewId) ==
  ViewsCall("deleteView",
            deleteViewById(TheViewRepository.heap, TheViewRepository.byId,
                           TheViewRepository.names, viewId))

\* the project store comes to hold the project of this id, or none
SelectProject(project) ==
  /\ activeProject # project
  /\ activeProject' = project
  /\ dispatched' = <<>>
  /\ storeResult' = [name |-> "selectProject", value |-> project]
  /\ UNCHANGED <<repoVars, pureVars, ctxVars, viewVars,
                 repository, repositoryRevision, viewRepository, viewsRevision,
                 hasWindow>>

-----------------------------------------------------------------------------
(* Specification SpecStores: calls on the two stores                       *)

AddElementResults == {[ok |-> TRUE], Fail(<<"Rejected addElement">>)}

RepositoryInputs == {"imported"}

ProjectInputs == {None, Some(<<"p1">>), Some(<<SP, "p1">>), Some(<<SP>>)}

StoreViewInputs == {SalesMap, CapabilityOnly}

StoreViewIdInputs == {Field(SalesMap, "id"), Some(<<"v9">>)}

DoSetRepository == \E next \in RepositoryInputs : SetRepository(next)
DoAddElement == \E answer \in AddElementResults : AddElement(answer)
DoStoreCreateView == \E view \in StoreViewInputs : StoreCreateView(view)
DoStoreDeleteView == \E viewId \in StoreViewIdInputs : StoreDeleteView(viewId)
DoSelectProject == \E project \in ProjectInputs : SelectProject(project)

InitStores ==
  /\ RepositoryIdle
  /\ PureIdle
  /\ ContextIdle
  /\ ViewsIdle
  /\ repository = None
  /\ repositoryRevision = 0
  /\ activeProject = None
  /\ viewRepository = None
  /\ viewsRevision = 0
  /\ dispatched = <<>>
  /\ hasWindow \in BOOLEAN
  /\ storeResult = [name |-> "none", value |-> None]

NextStores ==
  \/ GetRepositoryRevision
  \/ GetRepository
  \/ DoSetRepository
  \/ DoAddElement
  \/ GetViewRepositoryRevision
  \/ GetViewRepository
  \/ DoStoreCreateView
  \/ DoStoreDeleteView
  \/ DoSelectProject

SpecStores == InitStores /\ [][NextStores]_vars

-----------------------------------------------------------------------------
(* Properties of the stores                                                *)

Called(name) == storeResult'.name = name

StoreReturned == "throws" \notin DOMAIN storeResult'.value

RepositoryDelta == repositoryRevision' - repositoryRevision

ViewsDelta == viewsRevision' - viewsRevision

\* one event of the store for each increment where there is a window, none
\* where there is not
Signalled(name, n) == dispatched' = IF hasWindow THEN [i \in 1..n |-> name] ELSE <<>>

\* the other store's counter stays, and the counter never decreases
RevisionsMonotone ==
  /\ RepositoryDelta >= 0
  /\ ViewsDelta >= 0
  /\ (Called("getRepositoryRevision") \/ Called("getViewRepositoryRevision")
        \/ Called("selectProject"))
       => RepositoryDelta = 0 /\ ViewsDelta = 0 /\ dispatched' = <<>>
  /\ (Called("getRepository") \/ Called("setRepository") \/ Called("addElement"))
       => ViewsDelta = 0 /\ Signalled("ea:repositoryChanged", RepositoryDelta)
  /\ (Called("getViewRepository") \/ Called("createView") \/ Called("deleteView"))
       => RepositoryDelta = 0 /\ Signalled("ea:viewsChanged", ViewsDelta)
  /\ Called("setRepository") => RepositoryDelta = 1
  /\ Called("getRepository") => RepositoryDelta = Count(repository = None)

\* C25 as stated: neither revision ever decreases; a successful addElement, a
\* setRepository and a creating getRepository add exactly one to the
\* repository revision and dispatch the event, a failed addElement and the
\* reads add nothing; createView and deleteView do the same to the views
\* revision.
C25_RevisionsCountSuccesses ==
  [][/\ RevisionsMonotone
     /\ Called("addElement") => RepositoryDelta = Count(IsOk(storeResult'.value))
     /\ (Called("createView") \/ Called("deleteView"))
          => ViewsDelta = Count(StoreReturned /\ IsOk(storeResult'.value))
     /\ Called("getViewRepository") => ViewsDelta = Count(StoreReturned /\ viewRepository = None)
    ]_vars

\* C25, amended: neither revision ever decreases, and each is increased once,
\* with one event where there is a window, for each notification: one when
\* the call creates the singleton it works on (addElement with no repository;
\* createView, deleteView or getViewRepository with no ViewRepository bound to
\* the active project id), and one more when the operation succeeds.  A call
\* that throws and the reads change nothing.
C25_RevisionsCountNotifications ==
  [][/\ RevisionsMonotone
     /\ Called("addElement")
          => RepositoryDelta = Count(repository = None) + Count(IsOk(storeResult'.value))
     /\ (Called("getViewRepository") \/ Called("createView") \/ Called("deleteView"))
          => ViewsDelta = IF StoreReturned
                          THEN Count(Recreates) + Count(IsOk(storeResult'.value))
                          ELSE 0
    ]_vars

\* a view has been created through the store after the repository took an
\* element, both revisions having counted it
C25_Witness ==
  /\ storeResult.name = "createView"
  /\ IsOk(storeResult.value)
  /\ viewsRevision >= 2
  /\ repository # None
  /\ repositoryRevision >= 2
  /\ dispatched = <<"ea:viewsChanged">>

-----------------------------------------------------------------------------
(* Specification SpecRoundTrip: the provider driven by its handlers, then  *)
(* the current repository serialized, deserialized and serialized again    *)

\* what the second serialization is made of: the deserialized repository
\* serialized at time t, or the failure to deserialize
Reserialized(res, t) ==
  IF res.ok THEN [ok |-> TRUE, second |-> serializeRepository(res.repo, res.metadata, t)]
  ELSE res

\* serializeRepository, tryDeserializeRepository on its value, and
\* serializeRepository again, a tick later
RoundTrip(first) ==
  /\ out = None
  /\ arg' = [fn |-> "roundTrip", first |-> first]
  /\ out' = Some(Reserialized(tryDeserializeRepository(first), now + 1))
  /\ UNCHANGED <<backendVars, repoVars, ctxVars>>

\* objects given with blanks around the id, and attributes
RoundTripUpdaterInputs ==
  { [kind |-> "addObject",
     object |-> [id |-> Some(<<SP, "c", SP>>), type |-> "Application",
                 attributes |-> Some([name |-> <<SP, "y">>, _deleted |-> TRUE])]],
    [kind |-> "addRelationship",
     relationship |-> [fromId |-> Some(<<"c", SP>>), toId |-> Some(<<"a">>),
                       type |-> "DEPENDS_ON", attributes |-> Some([note |-> <<"n">>])]] }

\* the handlers of the provider; the clock stands still, the time of a
\* serialization being left out of the comparison
DoHandle ==
  /\ out = None
  /\ \/ DoSetEaRepository
     \/ DoCreateNewRepository
     \/ DoLoadRepositoryFromJsonText
     \/ DoClearRepository
     \/ DoUndo
     \/ DoRedo

DoSetUntrimmed ==
  /\ out = None
  /\ \E updater \in RoundTripUpdaterInputs :
       RelationshipsFit(updater) /\ SetEaRepository(updater) /\ HistoryFits'

DoRoundTrip ==
  /\ eaRepository # None
  /\ metadata # None
  /\ RoundTrip(serializeRepository(TheValue(eaRepository), TheValue(metadata), now))

NextRoundTrip ==
  \/ DoHandle
  \/ DoSetUntrimmed
  \/ DoRoundTrip

SpecRoundTrip == InitContext /\ [][NextRoundTrip]_vars

\* the metadata, the objects and the relationships of two serializations
\* are the same, in the same order
SameContent(a, b) ==
  /\ a.version = b.version
  /\ a.metadata = b.metadata
  /\ a.objects = b.objects
  /\ a.relationships = b.relationships

\* C26: serializing a repository reached through the handlers, deserializing
\* the result and serializing again gives the same metadata and the same
\* objects and relationships (ids, types, attributes, order) as the first
\* serialization.
C26_RoundTripStable ==
  out # None =>
    /\ TheValue(out).ok
    /\ SameContent(arg.first, TheValue(out).second)

\* a repository of several objects and a relationship went round
C26_Witness ==
  /\ out # None
  /\ TheValue(out).ok
  /\ Len(arg.first.objects) >= 3
  /\ Len(arg.first.relationships) = 1
  /\ arg.first.metadata.referenceFramework = "ArchiMate"

-----------------------------------------------------------------------------
(* Specification SpecLoad: snapshots loaded over a repository with history *)

Item(id, type) == [id |-> <<id>>, type |-> type, attributes |-> [name |-> <<"x">>]]

Link(fromId, toId, type) ==
  [fromId |-> <<fromId>>, toId |-> <<toId>>, type |-> type, attributes |-> EmptyAttributes]

LoadSnapshot(framework, objectItems, relationshipItems) ==
  [version |-> 1,
   metadata |-> WithCreatedAt(MetadataInput(<<"Loaded">>, "Enterprise", framework, "Advisory"), 0),
   objects |-> objectItems,
   relationships |-> relationshipItems,
   updatedAt |-> 0]

SoundItems == << Item("a", "Application"), Item("b", "Application"), Item("p", "Programme") >>

\* the framework's own types only; a type outside the ArchiMate list, last
\* or on a relationship that is otherwise wrong; and items the metamodel
\* refuses: a second object of id a, a type that does not exist, an end
\* that is no object, ends of types the relationship type does not join
LoadSnapshotInputs ==
  { LoadSnapshot("ArchiMate", SoundItems, << Link("a", "b", "DEPENDS_ON") >>),
    LoadSnapshot("ArchiMate", SoundItems,
                 << Link("a", "b", "DEPENDS_ON"), Link("p", "a", "DELIVERS") >>),
    LoadSnapshot("ArchiMate", SoundItems, << Link("a", "zz", "OWNS") >>),
    LoadSnapshot("Custom", SoundItems,
                 << Link("a", "b", "DEPENDS_ON"), Link("p", "a", "DELIVERS") >>),
    LoadSnapshot("Custom", << Item("a", "Application"), Item("a", "Programme") >>, <<>>),
    LoadSnapshot("TOGAF", << Item("a", "Application"), Item("w", "Widget") >>, <<>>),
    LoadSnapshot("Custom", SoundItems, << Link("a", "zz", "DEPENDS_ON") >>),
    LoadSnapshot("ArchiMate", SoundItems, << Link("a", "p", "DEPENDS_ON") >>) }

MaxLoadHistory == 2

LoadFits == Len(undoStack) + Len(redoStack) <= MaxLoadHistory

DoLoadSnapshot ==
  \E value \in LoadSnapshotInputs :
    LoadRepositoryFromJsonText([parses |-> TRUE, value |-> value]) /\ LoadFits'

DoCreateBeforeLoad == CreateNewRepository(HistoryMetadataInput) /\ LoadFits'

DoMutateBeforeLoad ==
  \E updater \in HistoryUpdaterInputs :
    RelationshipsFit(updater) /\ SetEaRepository(updater) /\ LoadFits'

NextLoad ==
  \/ DoCreateBeforeLoad
  \/ DoMutateBeforeLoad
  \/ DoUndoHistory
  \/ DoRedoHistory
  \/ DoLoadSnapshot

SpecLoad == InitContext /\ [][NextLoad]_vars

\* the step is loadRepositoryFromJsonText on the text of value
LoadOf(value) ==
  /\ returned'.name = "loadRepositoryFromJsonText"
  /\ LoadRepositoryFromJsonText([parses |-> TRUE, value |-> value])

\* the snapshot names ArchiMate and has a relationship of another type
OutsideArchiMate(value) ==
  /\ value.metadata.referenceFramework = "ArchiMate"
  /\ \E i \in 1..Len(value.relationships) :
       value.relationships[i].type \notin
         { "DECOMPOSES_TO", "REALIZES", "DEPENDS_ON", "HOSTED_ON", "IMPACTS" }

\* C27: loading a snapshot whose metadata names ArchiMate and which has a
\* relationship of a type outside the ArchiMate list returns an error, and
\* the repository, the metadata and the undo and redo stacks stay as they
\* were.
C27_UnsupportedArchiMateRejected ==
  [][\A value \in LoadSnapshotInputs :
       (OutsideArchiMate(value) /\ LoadOf(value)) =>
         /\ returned'.name = "loadRepositoryFromJsonText"
         /\ ~returned'.value.ok
         /\ returned'.value.error[1] =
              "Invalid ArchiMate repository snapshot: unsupported relationship type"
         /\ UNCHANGED <<eaRepository, metadata, undoStack, redoStack>>
    ]_vars

\* a load was refused for a type ArchiMate does not have, over a repository
\* with history
C27_Witness ==
  /\ returned.name = "loadRepositoryFromJsonText"
  /\ ~returned.value.ok
  /\ returned.value.error =
       <<"Invalid ArchiMate repository snapshot: unsupported relationship type", "DELIVERS">>
  /\ eaRepository # None
  /\ TheValue(metadata).referenceFramework = "Custom"
  /\ undoStack # <<>>

\* the object at i has a type that does not exist or the id of an earlier one
ObjectFails(value, i) ==
  \/ ~isValidObjectType(value.objects[i].type)
  \/ \E j \in 1..(i - 1) : value.objects[j].id = value.objects[i].id

\* the types of the objects of that id
TypesOf(value, id) ==
  { value.objects[i].type : i \in { j \in 1..Len(value.objects) : value.objects[j].id = id } }

\* the relationship at i has a type that does not exist, an end that is no
\* object of the snapshot, or ends of types its type does not join
RelationshipFails(value, i) ==
  \/ ~isValidRelationshipType(value.relationships[i].type)
  \/ TypesOf(value, value.relationships[i].fromId) = {}
  \/ TypesOf(value, value.relationships[i].toId) = {}
  \/ \E fromType \in TypesOf(value, value.relationships[i].fromId) :
       \E toType \in TypesOf(value, value.relationships[i].toId) :
         \/ ~SeqIncludes(RELATIONSHIP_TYPE_DEFINITIONS[value.relationships[i].type].fromTypes,
                         fromType)
         \/ ~SeqIncludes(RELATIONSHIP_TYPE_DEFINITIONS[value.relationships[i].type].toTypes,
                         toType)

FailsMetamodel(value) ==
  \/ \E i \in 1..Len(value.objects) : ObjectFails(value, i)
  \/ \E i \in 1..Len(value.relationships) : RelationshipFails(value, i)

\* the repository after the step holds the objects and the relationships of
\* the snapshot, each of them, in order
HoldsAllOf(value) ==
  /\ eaRepository' # None
  /\ serializeRepository(TheValue(eaRepository'), TheValue(metadata'), 0).objects = value.objects
  /\ serializeRepository(TheValue(eaRepository'), TheValue(metadata'), 0).relationships
       = value.relationships

\* C28: a load either rejects the snapshot or loads all of it: a snapshot
\* with an object or a relationship that fails the metamodel checks (unknown
\* type, duplicate id, unresolved end, ends of types not allowed) is
\* rejected with an error, and an accepted load holds every object and
\* relationship of the snapshot.
C28_LoadsAllOrRejects ==
  [][\A value \in LoadSnapshotInputs :
       LoadOf(value) =>
         /\ FailsMetamodel(value) => ~returned'.value.ok
         /\ returned'.value.ok => HoldsAllOf(value)
    ]_vars

-----------------------------------------------------------------------------
(* GraphView: the nodes and edges resolved from a repository and a view    *)

\* obj.attributes.hiddenFromDiagrams === true
IsHiddenFromDiagrams(attributes) ==
  "hiddenFromDiagrams" \in DOMAIN attributes /\ attributes["hiddenFromDiagrams"] = TRUE

\* isObjectVisibleForLifecycleCoverage(lifecycleCoverage, obj.attributes):
\* the policy is given by the ids of the objects it shows
isObjectVisibleForLifecycleCoverage(visible, obj) == obj.id \in visible

\* the name when it is a string that is not blank, the id otherwise
LabelOf(obj) ==
  IF "name" \in DOMAIN obj.attributes /\ Trim(obj.attributes["name"]) # <<>>
  THEN obj.attributes["name"]
  ELSE obj.id

NodeOf(obj) ==
  [id |-> obj.id, label |-> LabelOf(obj), objectType |-> obj.type,
   attributes |-> obj.attributes]

\* const nodes: the objects the view shows, in the order of the Map
GraphNodes(repo, viewDefinition, visible) ==
  LET Shown(obj) ==
        /\ SeqIncludes(viewDefinition.allowedObjectTypes, obj.type)
        /\ ~IsHiddenFromDiagrams(obj.attributes)
        /\ ~IsSoftDeleted(obj.attributes)
        /\ isObjectVisibleForLifecycleCoverage(visible, obj)
      shown == SelectSeq(ObjectValues(repo), Shown)
  IN [i \in 1..Len(shown) |-> NodeOf(shown[i])]

\* new Set(nodes.map((n) => n.id))
IdsOf(nodes) == { nodes[i].id : i \in 1..Len(nodes) }

EdgeOf(r) ==
  [fromId |-> r.fromId, toId |-> r.toId, relationshipType |-> r.type,
   attributes |-> r.attributes]

\* edges that need one end only among the nodes
GraphEdges_EitherEnd(repo, viewDefinition, nodeIdSet) ==
  LET Kept(r) ==
        /\ SeqIncludes(viewDefinition.allowedRelationshipTypes, r.type)
        /\ (r.fromId \in nodeIdSet \/ r.toId \in nodeIdSet)
      kept == SelectSeq(repo.relationships, Kept)
  IN [i \in 1..Len(kept) |-> EdgeOf(kept[i])]

\* const edges: the relationships of an allowed type between two nodes
GraphEdges(repo, viewDefinition, nodeIdSet) ==
  LET Kept(r) ==
        /\ SeqIncludes(viewDefinition.allowedRelationshipTypes, r.type)
        /\ r.fromId \in nodeIdSet
        /\ r.toId \in nodeIdSet
      kept == SelectSeq(repo.relationships, Kept)
  IN [i \in 1..Len(kept) |-> EdgeOf(kept[i])]

\* the neighbours of the frontier that are not yet included
NextFrontier(edges, included, frontier) ==
  { edges[i].toId : i \in { j \in 1..Len(edges) : edges[j].fromId \in frontier } } \ included

\* an expansion that goes on until nothing is added
RECURSIVE Included_Unbounded(_, _, _, _, _)
Included_Unbounded(edges, included, next, i, depth) ==
  IF next = {} THEN included \cup next
  ELSE Included_Unbounded(edges, included \cup next,
                          NextFrontier(edges, included \cup next, next), i + 1, depth)

\* the loop of filterGraphByDepth, entered for the i-th time (from 0) with
\* the set included so far and the frontier next
RECURSIVE Included(_, _, _, _, _)
Included(edges, included, next, i, depth) ==
  IF i >= depth \/ next = {} THEN included \cup next
  ELSE Included(edges, included \cup next,
                NextFrontier(edges, included \cup next, next), i + 1, depth)

\* the nodes and the edges among an included set
Among(data, included) ==
  LET NodeIn(n) == n.id \in included
      EdgeIn(e) == e.fromId \in included /\ e.toId \in included
  IN [nodes |-> SelectSeq(data.nodes, NodeIn), edges |-> SelectSeq(data.edges, EdgeIn)]

EmptyGraph == [nodes |-> <<>>, edges |-> <<>>]

filterGraphByDepth(data, rootId, depth) ==
  IF rootId = <<>> THEN EmptyGraph
  ELSE Among(data, Included(data.edges, {}, {rootId}, 0, depth))

\* rootNodeId && nodes.some((n) => n.id === rootNodeId) ? rootNodeId : ''
resolvedRootId(nodes, rootNodeId) ==
  IF rootNodeId # None /\ TheValue(rootNodeId) # <<>> /\ TheValue(rootNodeId) \in IdsOf(nodes)
  THEN TheValue(rootNodeId)
  ELSE <<>>

\* const filtered
Filtered(data, viewMode, rootId, depth) ==
  IF viewMode = "landscape" THEN data
  ELSE IF rootId # <<>> THEN filterGraphByDepth(data, rootId, depth)
  ELSE EmptyGraph

\* const data
GraphData(repo, viewDefinition, nodes) ==
  [nodes |-> nodes, edges |-> GraphEdges(repo, viewDefinition, IdsOf(nodes))]

ResolvedFrom(props, nodes) ==
  Filtered(GraphData(props.eaRepository, props.viewDefinition, nodes),
           props.viewMode, resolvedRootId(nodes, props.rootNodeId), props.depth)

\* the nodes and edges GraphView draws for its props
ResolvedGraph(props) ==
  ResolvedFrom(props, GraphNodes(props.eaRepository, props.viewDefinition, props.visible))

\* the effect of GraphView runs; times counts the runs on the same props
ResolveView ==
  /\ arg.fn = "resolveView"
  /\ IF out = None THEN out' = Some([filtered |-> ResolvedGraph(arg.props), times |-> 1])
     ELSE /\ TheValue(out).times = 1
          /\ out' = Some([filtered |-> ResolvedGraph(arg.props), times |-> 2])
  /\ UNCHANGED <<backendVars, repoVars, arg, ctxVars>>

-----------------------------------------------------------------------------
(* Specification SpecGraph: views resolved over small repositories         *)

MaxGraphEdges == 2   \* relationships in the repository of a resolved view

GraphObject(id, type, attributes) == [id |-> <<id>>, type |-> type, attributes |-> attributes]

\* Applications a, b, c, d, one hidden from diagrams, one soft-deleted, one
\* that the lifecycle policy may hide, and a Technology
GraphObjects ==
  << GraphObject("a", "Application", [name |-> <<"A">>]),
     GraphObject("b", "Application", [name |-> <<SP>>, hiddenFromDiagrams |-> FALSE]),
     GraphObject("c", "Application", EmptyAttributes),
     GraphObject("d", "Application", [_deleted |-> FALSE]),
     GraphObject("h", "Application", [hiddenFromDiagrams |-> TRUE]),
     GraphObject("x", "Application", [_deleted |-> TRUE]),
     GraphObject("v", "Application", EmptyAttributes),
     GraphObject("t", "Technology", EmptyAttributes) >>

GraphLink(fromId, toId, type) ==
  [fromId |-> <<fromId>>, toId |-> <<toId>>, type |-> type, attributes |-> EmptyAttributes]

\* a chain a, b, c, d closed into a cycle by c -> a, ways through the hidden,
\* the deleted, the invisible and the Technology object, and a type that the
\* view does not allow
GraphLinks ==
  { GraphLink("a", "b", "DEPENDS_ON"), GraphLink("b", "c", "DEPENDS_ON"),
    GraphLink("c", "d", "DEPENDS_ON"), GraphLink("c", "a", "DEPENDS_ON"),
    GraphLink("a", "h", "DEPENDS_ON"), GraphLink("h", "d", "DEPENDS_ON"),
    GraphLink("a", "x", "DEPENDS_ON"), GraphLink("v", "c", "DEPENDS_ON"),
    GraphLink("a", "v", "DEPENDS_ON"),
    GraphLink("a", "t", "HOSTED_ON"), GraphLink("a", "d", "INTEGRATES_WITH") }

\* the longest chain first, then every list of links within the bound
GraphRelationshipInputs ==
  { << GraphLink("a", "b", "DEPENDS_ON"), GraphLink("b", "c", "DEPENDS_ON"),
       GraphLink("c", "d", "DEPENDS_ON"), GraphLink("c", "a", "DEPENDS_ON"),
       GraphLink("a", "b", "DEPENDS_ON") >> }
  \cup SeqsUpTo(GraphLinks, MaxGraphEdges)

GraphRepository(relationshipItems) ==
  [order |-> [i \in 1..Len(GraphObjects) |-> GraphObjects[i].id],
   objects |-> [id \in { GraphObjects[i].id : i \in 1..Len(GraphObjects) } |->
                  CHOOSE obj \in { GraphObjects[i] : i \in 1..Len(GraphObjects) } : obj.id = id],
   relationships |-> relationshipItems]

GraphViewDefinition ==
  [allowedObjectTypes |-> <<"Application">>,
   allowedRelationshipTypes |-> <<"DEPENDS_ON", "HOSTED_ON">>]

AllGraphIds == { GraphObjects[i].id : i \in 1..Len(GraphObjects) }

GraphPropsInputs ==
  [eaRepository : { GraphRepository(r) : r \in GraphRelationshipInputs },
   viewDefinition : { GraphViewDefinition },
   visible : { AllGraphIds, AllGraphIds \ {<<"v">>} },
   viewMode : { "impact" },
   rootNodeId : { None, Some(<<>>), Some(<<"a">>), Some(<<"h">>), Some(<<"zz">>) },
   depth : { 1, 2, 3 }]
  \cup
  [eaRepository : { GraphRepository(r) : r \in GraphRelationshipInputs },
   viewDefinition : { GraphViewDefinition },
   visible : { AllGraphIds, AllGraphIds \ {<<"v">>} },
   viewMode : { "landscape" },
   rootNodeId : { None, Some(<<"a">>) },
   depth : { 1 }]

InitGraph ==
  /\ RepositoryIdle
  /\ ContextIdle
  /\ BackendIdle
  /\ arg \in [fn : { "resolveView" }, props : GraphPropsInputs]
  /\ out = None

NextGraph == ResolveView

SpecGraph == InitGraph /\ [][NextGraph]_vars

-----------------------------------------------------------------------------
(* Properties of the resolved view, checked under SpecGraph                *)

\* the ids of the objects of the repository that the view may show
ShowableIds(props) ==
  { id \in DOMAIN props.eaRepository.objects :
      /\ props.eaRepository.objects[id].type \in
           { props.viewDefinition.allowedObjectTypes[i] :
               i \in 1..Len(props.viewDefinition.allowedObjectTypes) }
      /\ ~IsHiddenFromDiagrams(props.eaRepository.objects[id].attributes)
      /\ ~IsSoftDeleted(props.eaRepository.objects[id].attributes)
      /\ id \in props.visible }

AllowedRelationshipTypes(props) ==
  { props.viewDefinition.allowedRelationshipTypes[i] :
      i \in 1..Len(props.viewDefinition.allowedRelationshipTypes) }

\* from -> to for each relationship of an allowed type between showable ids
AllowedPairs(props) ==
  { <<props.eaRepository.relationships[i].fromId, props.eaRepository.relationships[i].toId>> :
      i \in { j \in 1..Len(props.eaRepository.relationships) :
                /\ props.eaRepository.relationships[j].type \in AllowedRelationshipTypes(props)
                /\ props.eaRepository.relationships[j].fromId \in ShowableIds(props)
                /\ props.eaRepository.relationships[j].toId \in ShowableIds(props) } }

\* the ids at most k hops from root along pairs
RECURSIVE WithinHops(_, _, _)
WithinHops(pairs, root, k) ==
  IF k = 0 THEN {root}
  ELSE WithinHops(pairs, root, k - 1)
       \cup { pair[2] : pair \in { q \in pairs : q[1] \in WithinHops(pairs, root, k - 1) } }

EachOnce(nodes) == Cardinality(IdsOf(nodes)) = Len(nodes)

ResolvedImpact == out # None /\ arg.props.viewMode = "impact"

RootShown(props) ==
  props.rootNodeId # None /\ TheValue(props.rootNodeId) \in ShowableIds(props)

\* C29: in impact mode with a root among the filtered nodes, the resolved
\* nodes are the root and the nodes at most depth hops from it along the
\* allowed relationships between filtered nodes, each once, also when the
\* relationships form a cycle; without such a root the result is empty.
C29_ImpactIsBoundedReach ==
  ResolvedImpact =>
    IF RootShown(arg.props)
    THEN /\ IdsOf(TheValue(out).filtered.nodes) =
              WithinHops(AllowedPairs(arg.props), TheValue(arg.props.rootNodeId),
                         arg.props.depth)
         /\ EachOnce(TheValue(out).filtered.nodes)
    ELSE TheValue(out).filtered = EmptyGraph

\* from a, two hops along a -> b -> c -> d with c -> a closing a cycle gave
\* a, b and c
C29_Witness ==
  /\ ResolvedImpact
  /\ arg.props.rootNodeId = Some(<<"a">>)
  /\ arg.props.depth = 2
  /\ Len(arg.props.eaRepository.relationships) = 5
  /\ IdsOf(TheValue(out).filtered.nodes) = { <<"a">>, <<"b">>, <<"c">> }
  /\ Len(TheValue(out).filtered.edges) = 4

\* the nodes are live, not hidden and of an allowed type, and the edges are
\* of an allowed type between nodes of the graph
SoundGraph(filtered, props) ==
  /\ \A i \in 1..Len(filtered.nodes) :
       /\ filtered.nodes[i].id \in DOMAIN props.eaRepository.objects
       /\ ~IsSoftDeleted(props.eaRepository.objects[filtered.nodes[i].id].attributes)
       /\ ~IsHiddenFromDiagrams(props.eaRepository.objects[filtered.nodes[i].id].attributes)
       /\ SeqIncludes(props.viewDefinition.allowedObjectTypes,
                      props.eaRepository.objects[filtered.nodes[i].id].type)
  /\ \A i \in 1..Len(filtered.edges) :
       /\ filtered.edges[i].relationshipType \in AllowedRelationshipTypes(props)
       /\ filtered.edges[i].fromId \in IdsOf(filtered.nodes)
       /\ filtered.edges[i].toId \in IdsOf(filtered.nodes)

-----------------------------------------------------------------------------
(* ExplorerTree.deleteObject and the readers of the _deleted flag          *)

\* an updater that takes the object out of the map
DeleteUpdater_Removes(id) == [kind |-> "objectsDelete", id |-> id]

\* next.updateObjectAttributes(id, { _deleted: true }, 'merge')
DeleteUpdater(id) ==
  [kind |-> "updateObjectAttributes", id |-> Some(id),
   patch |-> Some([_deleted |-> TRUE]), mode |-> Some("merge")]

\* setEaRepository(updater) and message.success of onOk
DeleteCommit(id, resolved, r) ==
  Settle([Refs EXCEPT !.emitted = resolved.emitted \o r.emitted
                                  \o <<Success(<<"Element deleted.">>)>>],
         r.value, metadata, ~r.same, FALSE,
         [name |-> "deleteObject", value |-> id])

DeleteSet(id, resolved) ==
  DeleteCommit(id, resolved,
               setEaRepository(eaRepository, resolved.value, resolved.same, capturedMetadata))

\* deleteObject(id), the dialog being confirmed
DeleteObject(id) ==
  IF eaRepository = None \/ id \notin DOMAIN TheValue(eaRepository).objects THEN
    Settle(Refs, eaRepository, metadata, FALSE, FALSE,
           [name |-> "deleteObject", value |-> id])
  ELSE IF /\ ScopeOf(metadata) = Some("Business Unit")
          /\ TheValue(eaRepository).objects[id].type = "Enterprise" THEN
    Settle([Refs EXCEPT !.emitted = <<Warning(<<"Business Unit scope requires exactly one Enterprise root; it cannot be deleted.">>)>>],
           eaRepository, metadata, FALSE, FALSE,
           [name |-> "deleteObject", value |-> id])
  ELSE
    DeleteSet(id, DialogResolved(eaRepository,
                    ApplyUpdater(DeleteUpdater(id), RepoClone(TheValue(eaRepository)))))

\* the ids of the rows of a catalogue of the given types
CatalogRowIds(repo, allowedTypes) ==
  { id \in DOMAIN repo.objects :
      /\ repo.objects[id].type \in allowedTypes
      /\ ~IsSoftDeleted(repo.objects[id].attributes) }

-----------------------------------------------------------------------------
(* Specification SpecDelete: elements deleted from loaded repositories     *)

DeleteSnapshot(scope, objectItems, relationshipItems) ==
  [version |-> 1,
   metadata |-> WithCreatedAt(MetadataInput(<<"Sales">>, scope, "Custom", "Advisory"), 0),
   objects |-> objectItems,
   relationships |-> relationshipItems,
   updatedAt |-> 0]

\* a depends on b and is delivered by p
DeleteLinks == << Link("a", "b", "DEPENDS_ON"), Link("p", "a", "DELIVERS") >>

DeleteJsonTextInputs ==
  { [parses |-> TRUE, value |-> v] :
      v \in { DeleteSnapshot("Enterprise", GateObjects, DeleteLinks),
              DeleteSnapshot("Programme", GateObjects, DeleteLinks),
              DeleteSnapshot("Domain", GateObjects, <<>>),
              DeleteSnapshot("Business Unit", BusinessUnitObjects, <<>>) } }

DeleteIdInputs == { <<"a">>, <<"b">>, <<"p">>, <<"ent-root">>, <<"zz">> }

DoLoadForDelete ==
  \E jsonText \in DeleteJsonTextInputs : LoadRepositoryFromJsonText(jsonText) /\ GateHistoryFits'

DoDeleteObject == \E id \in DeleteIdInputs : DeleteObject(id) /\ GateHistoryFits'

DoUndoDelete == Undo

NextDelete ==
  \/ DoLoadForDelete
  \/ DoDeleteObject
  \/ DoUndoDelete

SpecDelete == InitContext /\ [][NextDelete]_vars

\* the step is deleteObject on an element of the current repository
DeletedId == returned'.value

DeleteStep ==
  /\ returned'.name = "deleteObject"
  /\ eaRepository # None
  /\ DeletedId \in DOMAIN TheValue(eaRepository).objects

\* next is prev with _deleted: true on the element id and nothing else changed
SoftDeleted(prev, next, id) ==
  /\ next.order = prev.order
  /\ DOMAIN next.objects = DOMAIN prev.objects
  /\ \A other \in (DOMAIN prev.objects) \ {id} : next.objects[other] = prev.objects[other]
  /\ next.objects[id].id = prev.objects[id].id
  /\ next.objects[id].type = prev.objects[id].type
  /\ DOMAIN next.objects[id].attributes = (DOMAIN prev.objects[id].attributes) \cup {"_deleted"}
  /\ next.objects[id].attributes["_deleted"] = TRUE
  /\ \A k \in (DOMAIN prev.objects[id].attributes) \ {"_deleted"} :
       next.objects[id].attributes[k] = prev.objects[id].attributes[k]
  /\ next.relationships = prev.relationships

\* the element id is in no live count, catalogue or resolved view of repo
Excluded(repo, id) ==
  /\ id \notin LiveIds(repo)
  /\ countLiveObjectsByType(repo, repo.objects[id].type) =
       Cardinality({ other \in (DOMAIN repo.objects) \ {id} :
                       /\ repo.objects[other].type = repo.objects[id].type
                       /\ ~IsSoftDeleted(repo.objects[other].attributes) })
  /\ id \notin CatalogRowIds(repo, { repo.objects[id].type })
  /\ id \notin IdsOf(GraphNodes(repo, [allowedObjectTypes |-> OBJECT_TYPES,
                                       allowedRelationshipTypes |-> RELATIONSHIP_TYPES],
                                DOMAIN repo.objects))

----------------------------------------------------------------------------
(* The order of the checks of addRelationship (checked under Spec)         *)

\* the checks a relationship fails on a map of objects, numbered in the
\* order of the documentation: 1 blank fromId, 2 blank toId, 3 unknown
\* relationship type, 4 unknown fromId, 5 unknown toId, 6 endpoint types
FailedChecks(objs, rel) ==
  LET from == Trim(Coalesce(rel.fromId, <<>>))
      to == Trim(Coalesce(rel.toId, <<>>))
      known == rel.type \in RelationshipTypeSet
      def == RELATIONSHIP_TYPE_DEFINITIONS[rel.type]
  IN
  { n \in 1..6 :
      \/ n = 1 /\ from = <<>>
      \/ n = 2 /\ to = <<>>
      \/ n = 3 /\ ~known
      \/ n = 4 /\ from \notin DOMAIN objs
      \/ n = 5 /\ to \notin DOMAIN objs
      \/ n = 6 /\ known /\ from \in DOMAIN objs /\ to \in DOMAIN objs
               /\ ~ (/\ \E i \in DOMAIN def.fromTypes : def.fromTypes[i] = objs[from].type
                     /\ \E i \in DOMAIN def.toTypes : def.toTypes[i] = objs[to].type) }

Earliest(checks) == CHOOSE n \in checks : \A m \in checks : n <= m

\* the error that reports check n
ErrorOfCheck(n, objs, rel) ==
  LET from == Trim(Coalesce(rel.fromId, <<>>))
      to == Trim(Coalesce(rel.toId, <<>>))
  IN
  CASE n = 1 -> <<"Relationship fromId is required.">>
    [] n = 2 -> <<"Relationship toId is required.">>
    [] n = 3 -> <<"Invalid relationship type", rel.type>>
    [] n = 4 -> <<"Unknown object id", from>>
    [] n = 5 -> <<"Unknown object id", to>>
    [] n = 6 -> <<"Invalid endpoints for relationship type", rel.type,
                  objs[from].type, objs[to].type>>

\* repo.addRelationship(rel), the relationship handed over kept in arg
AddRelationshipOf(h, rel, maxRels) ==
  LET r == addRelationship(objects(h), relationships(h), rel) IN
  /\ Len(r.relationships) <= maxRels
  /\ heapRels' = [heapRels EXCEPT ![handles[h].relationships] = r.relationships]
  /\ result' = Some(r.result)
  /\ lastOp' = [name |-> "addRelationship", on |-> h]
  /\ arg' = Some(rel)
  /\ out' = None
  /\ UNCHANGED <<backendVars, heapObjects, handles, ctxVars>>

DoAddRelationshipOf ==
  \E rel \in RelationshipInputs : AddRelationshipOf("repo", rel, MaxRels)

NextOrder == DoAddRelationshipOf

SpecOrder == Init /\ [][NextOrder]_vars

\* C32: addRelationship checks in a fixed order (blank fromId, blank toId,
\* unknown relationship type, unknown fromId object, unknown toId object,
\* endpoint types); a relationship that fails several checks is reported
\* with the error of the earliest one, and one that fails none is accepted.
C32_EarliestErrorReported ==
  [][ lastOp'.name = "addRelationship" /\ arg' # None =>
        IF FailedChecks(objects("repo"), TheValue(arg')) = {} THEN result' = Some(Ok)
        ELSE result' =
               Some(Fail(ErrorOfCheck(Earliest(FailedChecks(objects("repo"), TheValue(arg'))),
                                      objects("repo"), TheValue(arg')))) ]_vars

\* on a repository without objects a relationship of the unknown type USES
\* between two unknown ids was reported as of unknown type
C32_Witness ==
  /\ lastOp.name = "addRelationship"
  /\ DOMAIN objects("repo") = {}
  /\ arg = Some([fromId |-> Some(<<"z">>), toId |-> Some(<<"z">>), type |-> "USES",
                 attributes |-> None])
  /\ result = Some(Fail(<<"Invalid relationship type", "USES">>))

----------------------------------------------------------------------------
(* History roots (checked under SpecLoad)                                  *)

\* the step is a loadRepositoryFromJsonText or createNewRepository that
\* returned { ok: true }
StartsRoot ==
  /\ returned'.name \in { "loadRepositoryFromJsonText", "createNewRepository" }
  /\ returned'.value = Ok

\* C33: a successful loadRepositoryFromJsonText or createNewRepository
\* starts a new history root: once it is committed the undo and redo stacks
\* are empty and canUndo is false, so undo cannot bring back the repository
\* that was current before.
C33_LoadStartsNewHistoryRoot ==
  [][ StartsRoot =>
        /\ undoStack' = <<>>
        /\ redoStack' = <<>>
        /\ ~canUndo'
        /\ ~canRedo' ]_vars

----------------------------------------------------------------------------
(* SpecRecord: the history scenario with a clock that moves                *)

NextRecord ==
  \/ DoCreateHistory
  \/ DoMutate
  \/ DoUndoHistory
  \/ DoRedoHistory
  \/ DoTick

SpecRecord == InitContext /\ [][NextRecord]_vars

\* C34: history records only meaningful changes: a commit whose repository
\* contents and metadata are equal to the current ones (a clone returned
\* without any change) adds no undo entry and leaves the redo stack alone.
C34_EqualCommitNotRecorded ==
  [][ /\ returned'.name = "setEaRepository"
      /\ eaRepository' = eaRepository
      /\ metadata' = metadata
      => /\ undoStack' = undoStack
         /\ redoStack' = redoStack ]_vars

----------------------------------------------------------------------------
(* SpecInverse: the history scenario with a moving clock and with          *)
(* setEaRepository(null); undo and redo leave in arg the repository and    *)
(* the stacks they were called on                                          *)

MaxInverseDepth == 2

InverseFits == Len(undoStack) + Len(redoStack) <= MaxInverseDepth

\* a handler of outcome o, the state it is called in kept in arg
Observed(o) ==
  /\ Landed(o.refs, o.repo, o.meta, o.ret)
  /\ arg' = Some([repo |-> eaRepository, undoStack |-> undoStack, redoStack |-> redoStack])
  /\ out' = None
  /\ UNCHANGED <<backendVars, repoVars, now>>

DoCreateInverse == CreateNewRepository(HistoryMetadataInput) /\ InverseFits'

\* an object is added; it is renamed
InverseUpdaterInputs ==
  { [kind |-> "addObject",
     object |-> ContextObject("a", "Application", Some([name |-> <<"x">>]))],
    Rename("a") }

DoMutateInverse ==
  \E updater \in InverseUpdaterInputs : SetEaRepository(updater) /\ InverseFits'

DoDrop == SetEaRepository([kind |-> "null"])

DoUndoObserved == Observed(UndoOutcome)

DoRedoObserved == Observed(RedoOutcome)

NextInverse ==
  \/ DoCreateInverse
  \/ DoMutateInverse
  \/ DoDrop
  \/ DoUndoObserved
  \/ DoRedoObserved
  \/ DoTick

SpecInverse == InitContext /\ [][NextInverse]_vars

\* two stacks hold snapshots of the same contents, entry by entry (the time
\* stamp updatedAt of a snapshot is not part of its contents)
SameSnapshots(a, b) ==
  /\ Len(a) = Len(b)
  /\ \A i \in 1..Len(a) : SameContent(a[i], b[i])

\* the step brings back the repository and the two stacks that the call
\* before it was made on
Restores ==
  /\ returned'.value = TRUE
  /\ eaRepository' = TheValue(arg).repo
  /\ SameSnapshots(undoStack', TheValue(arg).undoStack)
  /\ SameSnapshots(redoStack', TheValue(arg).redoStack)

\* the step is redo() after an undo() that was called on a non-empty undo
\* stack; undo() after a redo() that was called on a non-empty redo stack
RedoAfterUndo ==
  /\ returned.name = "undo"
  /\ returned'.name = "redo"
  /\ TheValue(arg).undoStack # <<>>
  /\ DoRedoObserved

UndoAfterRedo ==
  /\ returned.name = "redo"
  /\ returned'.name = "undo"
  /\ TheValue(arg).redoStack # <<>>
  /\ DoUndoObserved

\* C35 as stated: from any state with a non-empty undo stack, undo followed
\* by redo restores the same repository contents and the same contents of
\* both stacks, and from any state with a non-empty redo stack, redo
\* followed by undo does likewise.
C35_UndoRedoInverse ==
  [][ /\ RedoAfterUndo => Restores
      /\ UndoAfterRedo => Restores ]_vars

\* C35 amended: the same, from the states in which a repository is current;
\* the snapshots on the stacks are the same up to their time stamps.
C35_UndoRedoInverseWhenCurrent ==
  [][ /\ RedoAfterUndo /\ TheValue(arg).repo # None => Restores
      /\ UndoAfterRedo /\ TheValue(arg).repo # None => Restores ]_vars

\* an undo was made with entries left on both stacks, after the clock moved
C35_Witness ==
  /\ returned = [name |-> "redo", value |-> TRUE]
  /\ arg # None
  /\ Len(TheValue(arg).undoStack) = 0
  /\ Len(TheValue(arg).redoStack) = 2
  /\ Len(undoStack) = 1
  /\ Len(redoStack) = 1
  /\ now > 0

----------------------------------------------------------------------------
(* The read-only gate (checked under SpecGate)                             *)

ScopedScopes == { Some("Business Unit"), Some("Domain"), Some("Programme") }

\* the objects of an optional repository
ObjectsOf(repo) == IF repo = None THEN <<>> ELSE TheValue(repo).objects

\* the object id of the map is of a type that scope does not let write
ReadOnlyIn(map, id, scope) ==
  id \in DOMAIN map /\ ~isAnyObjectTypeWritableForScope(scope, Some(map[id].type))

\* every object that is of a non-writable type before or after is there on
\* both sides with the same type and the same attributes
ReadOnlyObjectsKept(before, after, scope) ==
  \A id \in (DOMAIN before) \cup (DOMAIN after) :
    ReadOnlyIn(before, id, scope) \/ ReadOnlyIn(after, id, scope) =>
      /\ id \in DOMAIN before
      /\ id \in DOMAIN after
      /\ before[id] = after[id]

\* the step is a proposal to setEaRepository made in a scoped mode
ScopedProposal == ProposalStep /\ ScopeOf(metadata) \in ScopedScopes

\* C36 as stated: in Business Unit, Domain and Programme scope setEaRepository
\* rejects every proposal that adds, removes, retypes or changes the
\* attributes of an object whose type is not writable for the scope, so
\* between two accepted states all objects of non-writable types are
\* identical.
C36_ReadOnlyObjectsUntouched ==
  [][ ScopedProposal =>
        ReadOnlyObjectsKept(ObjectsOf(eaRepository), ObjectsOf(eaRepository'),
                            ScopeOf(metadata)) ]_vars

\* C36 amended: the same for every proposal of a repository made while a
\* repository is current; the proposal null is accepted whatever it removes.
C36_ReadOnlyObjectsUntouchedByRepositories ==
  [][ ScopedProposal /\ eaRepository # None /\ eaRepository' # None =>
        ReadOnlyObjectsKept(ObjectsOf(eaRepository), ObjectsOf(eaRepository'),
                            ScopeOf(metadata)) ]_vars

\* in Domain scope the soft-deletion of the Application a was accepted
\* while the Programme p, read-only there, is in the repository
C36_Witness ==
  /\ returned.name = "setEaRepository"
  /\ ScopeOf(metadata) = Some("Domain")
  /\ eaRepository # None
  /\ <<"p">> \in DOMAIN ObjectsOf(eaRepository)
  /\ ReadOnlyIn(ObjectsOf(eaRepository), <<"p">>, ScopeOf(metadata))
  /\ IsSoftDeleted(ObjectsOf(eaRepository)[<<"a">>].attributes)

----------------------------------------------------------------------------
(* Rejected calls on the view store (checked under SpecStores)             *)

\* the views a ViewRepository holds, by id
StoredViews(heap, ids) == [id \in DOMAIN ids |-> heap[ids[id]]]

\* the step leaves the stored views and the name index as given
StoreLeftAs(views, names) ==
  /\ StoredViews(viewHeap', byId') = views
  /\ idByNormalizedName' = names

\* the step is the store's createView or deleteView, and returned ok
StoreViewCall == Called("createView") \/ Called("deleteView")
StoreViewCallOk == StoreReturned /\ IsOk(storeResult'.value)

\* C37 as stated: a rejected createView or deleteViewById leaves the stored
\* views and the name index unchanged and does not increase the views
\* revision; only a successful call changes the store, and it increases the
\* revision by exactly one.
C37_OnlySuccessChangesStore ==
  [][ StoreViewCall =>
        IF StoreViewCallOk THEN
          /\ ~StoreLeftAs(StoredViews(viewHeap, byId), idByNormalizedName)
          /\ ViewsDelta = 1
        ELSE
          /\ StoreLeftAs(StoredViews(viewHeap, byId), idByNormalizedName)
          /\ ViewsDelta = 0 ]_vars

\* C37 amended: on the ViewRepository of the active project a rejected call
\* leaves the stored views and the name index unchanged and the revision as
\* it was, and a successful call changes them and adds one.  A call that
\* first has to make that ViewRepository works on an empty one and adds one
\* more to the revision, rejected or not; a call that throws changes nothing.
C37_OnlySuccessChangesExistingStore ==
  [][ StoreViewCall =>
        IF ~StoreReturned THEN
          /\ StoreLeftAs(StoredViews(viewHeap, byId), idByNormalizedName)
          /\ ViewsDelta = 0
        ELSE IF Recreates THEN
          /\ StoreLeftAs(<<>>, <<>>) <=> ~StoreViewCallOk
          /\ ViewsDelta = 1 + Count(StoreViewCallOk)
        ELSE
          /\ StoreLeftAs(StoredViews(viewHeap, byId), idByNormalizedName) <=> ~StoreViewCallOk
          /\ ViewsDelta = Count(StoreViewCallOk) ]_vars

\* a createView was rejected on a ViewRepository that holds a view
C37_Witness ==
  /\ storeResult.name = "createView"
  /\ "ok" \in DOMAIN storeResult.value
  /\ ~storeResult.value.ok
  /\ DOMAIN byId # {}
  /\ viewsRevision = 2

----------------------------------------------------------------------------
(* canUndo and canRedo (checked under SpecContext)                         *)

FlagsFollowStacks ==
  /\ canUndo <=> undoStack # <<>>
  /\ canRedo <=> redoStack # <<>>

\* C38: in every state reached by commits, rejections, undo, redo, load,
\* create and clear, canUndo is true exactly when the undo stack is
\* non-empty and canRedo exactly when the redo stack is non-empty; undo
\* returns false exactly when the undo stack is empty, redo returns false
\* exactly when the redo stack is empty.
C38_FlagsAndAnswersFollowStacks ==
  /\ []FlagsFollowStacks
  /\ [][ /\ returned'.name = "undo" /\ Undo
             => (returned'.value = FALSE <=> undoStack = <<>>)
         /\ returned'.name = "redo" /\ Redo
             => (returned'.value = FALSE <=> redoStack = <<>>) ]_vars

\* an undo has moved the only entry to the redo stack
C38_Witness ==
  /\ returned = [name |-> "undo", value |-> TRUE]
  /\ undoStack = <<>>
  /\ ~canUndo
  /\ redoStack # <<>>
  /\ canRedo

----------------------------------------------------------------------------
(* The two stacks together (checked under SpecEviction)                    *)

\* the step is a successful undo(), a successful redo()
UndoDone == returned'.name = "undo" /\ returned'.value = TRUE /\ Undo
RedoDone == returned'.name = "redo" /\ returned'.value = TRUE /\ Redo

\* C39: in every reachable state the undo stack and the redo stack together
\* hold at most 50 snapshots, so the push onto the redo stack during undo
\* and the push onto the undo stack during redo never evict an entry: all
\* entries that were on the stacks are still on them after undo and redo.
C39_UndoRedoLoseNothing ==
  /\ [](Len(undoStack) + Len(redoStack) <= 50)
  /\ [][ /\ UndoDone =>
             /\ undoStack' = SubSeq(undoStack, 1, Len(undoStack) - 1)
             /\ Len(redoStack') >= Len(redoStack)
             /\ LastEntries(redoStack', Len(redoStack)) = redoStack
         /\ RedoDone =>
             /\ redoStack' = Tail(redoStack)
             /\ Len(undoStack') >= Len(undoStack)
             /\ SubSeq(undoStack', 1, Len(undoStack)) = undoStack ]_vars

\* the stacks hold 50 snapshots between them, some of them put on the redo
\* stack by undo
C39_Witness ==
  /\ returned = [name |-> "undo", value |-> TRUE]
  /\ Len(undoStack) + Len(redoStack) = 50
  /\ Len(redoStack) >= 2

----------------------------------------------------------------------------
(* SpecPaths: the gate scenario with undo and redo: every path by which a  *)
(* repository becomes current                                              *)

MaxPathsHistory == 1

PathsFit == Len(undoStack) + Len(redoStack) <= MaxPathsHistory

DoCreatePaths ==
  \E input \in GateMetadataInputs : CreateNewRepository(input) /\ PathsFit'

\* a snapshot for each scope; the Business Unit one holds two Enterprises
PathsJsonTextInputs ==
  { [parses |-> TRUE, value |-> v] :
      v \in { GateSnapshot(<<"Sales">>, "Domain", "TOGAF", GateObjects),
              GateSnapshot(<<"Sales">>, "Programme", "Custom", GateObjects),
              GateSnapshot(<<"Sales">>, "Enterprise", "ArchiMate", GateObjects),
              GateSnapshot(<<"Sales">>, "Business Unit", "Custom", BusinessUnitObjects) } }

PathsUpdaterInputs ==
  { [kind |-> "addRelationship", relationship |-> ContextRelationship("a", "b", "DEPENDS_ON")],
    SoftDelete("a"), SoftDelete("p") }

DoLoadPaths ==
  \E jsonText \in PathsJsonTextInputs : LoadRepositoryFromJsonText(jsonText) /\ PathsFit'

DoProposePaths ==
  \E updater \in PathsUpdaterInputs :
    RelationshipsFit(updater) /\ SetEaRepository(updater) /\ PathsFit'

DoUndoPaths == Undo

DoRedoPaths == Redo

NextPaths ==
  \/ DoCreatePaths
  \/ DoLoadPaths
  \/ DoProposePaths
  \/ DoUndoPaths
  \/ DoRedoPaths

SpecPaths == InitContext /\ [][NextPaths]_vars

\* repo keeps the rules of the reference framework and of the scope of meta
SoundFor(repo, meta) ==
  /\ FrameworkOf(meta) = Some("ArchiMate") => ArchiMateConforms(repo)
  /\ ScopeOf(meta) = Some("Business Unit") => BusinessUnitSound(repo)
  /\ ScopeOf(meta) = Some("Domain") => ~CrossesDomains(repo, meta)
  /\ ScopeOf(meta) = Some("Programme") => ProgrammeFirst(repo)

\* the step makes another repository current
BecomesCurrent == eaRepository' # None /\ eaRepository' # eaRepository

\* C40 as stated: every repository that becomes current, by setEaRepository,
\* load, undo or redo, satisfies the structural rules of the scope and of
\* the reference framework of its metadata.
C40_CurrentRepositorySound ==
  (eaRepository # None /\ metadata # None) => SoundFor(TheValue(eaRepository), metadata)

\* C40 amended: a repository that becomes current by any path conforms to
\* ArchiMate when that is the reference framework of its metadata; one that
\* createNewRepository makes keeps all rules of its metadata; one that
\* setEaRepository accepts keeps the Business Unit and Programme rules of
\* the current metadata and the Domain rule for the repository name that
\* setEaRepository closed over.  Load, undo and redo apply no scope rule.
C40_SoundAsFarAsChecked ==
  [][ BecomesCurrent =>
        /\ FrameworkOf(metadata') = Some("ArchiMate")
             => ArchiMateConforms(TheValue(eaRepository'))
        /\ returned'.name = "createNewRepository"
             => SoundFor(TheValue(eaRepository'), metadata')
        /\ ProposalStep =>
             /\ ScopeOf(metadata) = Some("Business Unit")
                  => BusinessUnitSound(TheValue(eaRepository'))
             /\ ScopeOf(metadata) = Some("Programme")
                  => ProgrammeFirst(TheValue(eaRepository'))
             /\ ScopeOf(metadata) = Some("Domain")
                  => ~CrossesDomains(TheValue(eaRepository'), capturedMetadata) ]_vars

\* a repository of Programme scope came back by undo with its Programme
C40_Witness ==
  /\ returned = [name |-> "undo", value |-> TRUE]
  /\ ScopeOf(metadata) = Some("Programme")
  /\ eaRepository # None
  /\ IsLive(TheValue(eaRepository), <<"p">>)
  /\ redoStack # <<>>

====
